---- MODULE Spec2Model ----
(***************************************************************************)
(* Palm registration and recognition: the per-identity file store and the  *)
(* command layer of palm_api.py, and the in-memory palm_database of        *)
(* PalmRecognitionSystem (palm_recognition_system.py).                     *)
(*                                                                         *)
(* Numbers.  A float is a record [k, v]: k = "fin" with v the value in     *)
(* hundredths (1.0 is 100), k = "inf" for +infinity, k = "nan" for NaN; a  *)
(* finite float off the hundredths carries e8, the hundred-millionths above*)
(* v, and, when its binary value goes on after them, as that of a binary32 *)
(* quotient does, under more what tells it from every other float: the     *)
(* mantissa and exponent of a binary32, the operands of a double quotient. *)
(* Without more the float is the double nearest to the decimal.  Two equal *)
(* records are one float.  A template distance is the square root of a sum *)
(* of                                                                      *)
(* squares, a record [k, sq] holding the radicand sq in units of 1/100^2   *)
(* (with hi, its upper bound, when a difference is not exact).  A < or <=  *)
(* of the code is decided by the radicands where they lie apart by more    *)
(* than the float operations can round (in double under NumPy 1.x, in      *)
(* binary32 under NumPy 2); where they do not, the rounding decides, and   *)
(* the outcome is an input of the operator.                                *)
(***************************************************************************)
EXTENDS Integers, Sequences, FiniteSets, TLC

VARIABLES
    store,          \* PALM_DATA_DIR: identity -> the file <identity>.json
    palm_database,  \* palm_database of the PalmRecognitionSystem object in use,
                    \* in insertion order
    other_database, \* palm_database of a second PalmRecognitionSystem object
    database_file,  \* the file palm_database.pkl of the working directory
    now,            \* the clock read by datetime.utcnow()
    model_exists,   \* whether MODEL_PATH holds a loadable model
    writable,       \* whether the file system of PALM_DATA_DIR is mounted
                    \* read-write: mounted read-only, creating, rewriting and
                    \* removing a file all fail
    res             \* the last call: what was called, what it returned

vars == <<store, palm_database, other_database, database_file, now, model_exists,
          writable, res>>

----------------------------------------------------------------------------
(* Bounds and inputs *)

MaxClock == 2

Ids == {"555-1111", "555-2222"}

Names == {"alice", "bob"}

----------------------------------------------------------------------------
(* Floats *)

Fin(n) == [k |-> "fin", v |-> n]
Inf == [k |-> "inf", v |-> 0]
NaN == [k |-> "nan", v |-> 0]

\* a finite float that lies e8 hundred-millionths above v hundredths
Fine(v, e8) == [k |-> "fin", v |-> v, e8 |-> e8]

\* the hundred-millionths a finite float lies above its hundredths
E8(x) == IF "e8" \in DOMAIN x THEN x.e8 ELSE 0

\* whether a finite float lies above its hundred-millionths; x.more then names
\* the float among those that share v and e8
More(x) == "more" \in DOMAIN x

\* whether a finite float is a whole number of hundredths
Whole(x) == E8(x) = 0 /\ ~ More(x)

\* the float of v hundredths and e8 hundred-millionths; rest is <<>> for a
\* float that ends there, and otherwise what names the float
Float(v, e8, rest) ==
    IF rest # <<>> THEN [k |-> "fin", v |-> v, e8 |-> e8, more |-> rest]
    ELSE IF e8 # 0 THEN Fine(v, e8)
    ELSE Fin(v)

\* a / b of two Python floats that hold whole pixel distances: the quotient a
\* double holds, to eight decimals; one that goes on after them is named by its
\* operands (the same operands give the same double)
truediv(a, b) ==
    Float((a * 100) \div b,
          (((a * 100) % b) * 1000000) \div b,
          IF (((a * 100) % b) * 1000000) % b # 0 THEN <<"double", a, b>> ELSE <<>>)

RECURSIVE Doublings(_, _)
\* how often num is doubled until num / den is 1 or more
Doublings(num, den) == IF num >= den THEN 0 ELSE 1 + Doublings(2 * num, den)

RECURSIVE Halvings(_, _)
\* how often den is doubled while num / den is 2 or more
Halvings(num, den) == IF num < 2 * den THEN 0 ELSE 1 + Halvings(num, 2 * den)

\* four more binary digits of a quotient: p is <<digits so far, remainder>>
DivStep(p, den) == <<p[1] * 16 + (16 * p[2]) \div den, (16 * p[2]) % den>>

\* 24 binary digits after the leading one and the remainder left, rounded to
\* the 23 digits of a binary32 mantissa: to nearest, to even on the half
Nearest(p) ==
    8388608 + p[1] \div 2
    + (IF p[1] % 2 = 1 /\ (p[2] # 0 \/ (p[1] \div 2) % 2 = 1) THEN 1 ELSE 0)

\* the mantissa, in units of 2^-23, of the binary32 nearest to num / den, a
\* quotient in [1, 2)
Mantissa(num, den) ==
    Nearest(DivStep(DivStep(DivStep(DivStep(DivStep(DivStep(
                <<0, num - den>>, den), den), den), den), den), den))

\* the first eight decimals of f * 390625 / (d1 * d2), divided in two stages
\* that keep the numbers small, and whether the decimals go on after them
Decimals(f, d1, d2) ==
    <<((f \div d1) * 390625 + ((f % d1) * 390625) \div d1) \div d2,
      \/ ((f % d1) * 390625) % d1 # 0
      \/ ((f \div d1) * 390625 + ((f % d1) * 390625) \div d1) % d2 # 0>>

\* the float of whole units and the decimals dec, named by bits when the
\* decimals go on
Decimal(whole, dec, bits) ==
    Float(whole * 100 + dec[1] \div 1000000, dec[1] % 1000000,
          IF dec[2] THEN bits ELSE <<>>)

\* the float m / 2^k (k >= 0) of a binary32 with mantissa m: m / 2^k is a whole
\* number and a fraction f / 2^k, and f / 2^k is f * 390625 / 2^(k - 8)
\* hundred-millionths.  The mantissa and the exponent tell the float from its
\* neighbours, which may share all eight decimals
Binary32(m, k) ==
    Decimal(IF k > 24 THEN 0 ELSE m \div 2 ^ k,
            Decimals((IF k > 24 THEN m ELSE m % 2 ^ k) * 2 ^ (IF k < 8 THEN 8 - k ELSE 0),
                     2 ^ (IF k < 8 THEN 0 ELSE IF k < 20 THEN k - 8 ELSE 12),
                     2 ^ (IF k < 20 THEN 0 ELSE k - 20)),
            <<"binary32", m, k>>)

\* the binary32 nearest to a / b for a / b in [2^e, 2^(e + 1))
Scaled(a, b, e) ==
    Binary32(Mantissa(IF e < 0 THEN a * 2 ^ (0 - e) ELSE a,
                      IF e > 0 THEN b * 2 ^ e ELSE b),
             23 - e)

\* a / b of two binary32 that hold whole pixel distances (numpy scalars: x/0 is
\* inf, 0/0 is nan): the binary32 nearest to the quotient
Div(a, b) ==
    IF b = 0 THEN (IF a = 0 THEN NaN ELSE Inf)
    ELSE IF a = 0 THEN Fin(0)
    ELSE Scaled(a, b, IF a >= b THEN Halvings(a, b) ELSE 0 - Doublings(a, b))

\* a sum of squares known to lie between lo and hi
Range(lo, hi) == IF lo = hi THEN Fin(lo) ELSE [k |-> "fin", v |-> lo, hi |-> hi]

\* the upper bound of a sum of squares
Hi(x) == IF "hi" \in DOMAIN x THEN x.hi ELSE x.v

\* whether a finite float is its decimal value exactly: a whole number of
\* quarters, which binary32 and double both hold
Exact(x) == Whole(x) /\ x.v % 25 = 0

Abs(n) == IF n < 0 THEN 0 - n ELSE n

\* |a - b| of two finite floats read to six decimals, in millionths
Gap(a, b) == Abs((a.v - b.v) * 10000 + E8(a) \div 100 - E8(b) \div 100)

\* how far, in millionths, the computed a - b can lie from the gap of the six
\* decimals: the decimals cut off the operands, and the rounding of the
\* operation, which NumPy 1.x does in double and NumPy 2 in binary32 after
\* rounding a Python float operand to binary32 (3 * 2^-24 of the larger
\* operand at most)
Slack(a, b) == 3 + (18 * ((IF a.v > b.v THEN a.v ELSE b.v) + 1)) \div 10000

\* the square of h hundredths and l4 millionths, in units of 1/100^2, rounded
\* down
SqFloor(h, l4) ==
    h * h + (2 * h * l4) \div 10000
          + (((2 * h * l4) % 10000) * 10000 + l4 * l4) \div 100000000

\* the squares a difference within s of d millionths can have
SqSpread(d, s) ==
    Range(IF d > s THEN SqFloor((d - s) \div 10000, (d - s) % 10000) ELSE 0,
          SqFloor((d + s) \div 10000, (d + s) % 10000) + 1)

\* (a - b) ** 2: zero for twice the same float (a float and the double of the
\* same value, which json reads back, subtract to 0.0), exact for two floats
\* that are whole quarters, and otherwise between the squares of the least and
\* the greatest difference the operation can return; two neighbouring binary32
\* are two records and fall under the last case
SqDiff(a, b) ==
    IF a.k = "nan" \/ b.k = "nan" THEN NaN
    ELSE IF a.k = "inf" /\ b.k = "inf" THEN NaN
    ELSE IF a.k = "inf" \/ b.k = "inf" THEN Inf
    ELSE IF a = b THEN Fin(0)
    ELSE IF Exact(a) /\ Exact(b) THEN Fin((a.v - b.v) * (a.v - b.v))
    ELSE SqSpread(Gap(a, b), Slack(a, b))

\* a + b for a, b >= 0
Add(a, b) ==
    IF a.k = "nan" \/ b.k = "nan" THEN NaN
    ELSE IF a.k = "inf" \/ b.k = "inf" THEN Inf
    ELSE Range(a.v + b.v, Hi(a) + Hi(b))

\* np.sqrt(x): the radicand is carried
np_sqrt(x) ==
    IF "hi" \in DOMAIN x THEN [k |-> x.k, sq |-> x.v, hi |-> x.hi]
    ELSE [k |-> x.k, sq |-> x.v]

DistInf == [k |-> "inf", sq |-> 0]

\* the upper bound of the radicand of a distance
HiSq(d) == IF "hi" \in DOMAIN d THEN d.hi ELSE d.sq

\* the squares, the sum and the square root of a distance are float operations
\* (binary32 under NumPy 2, double under NumPy 1.x): the radicand of the float
\* returned lies within 2 millionths of the exact one, between Below and Above
Below(sq) == sq - (sq + 499999) \div 500000

Above(sq) == sq + (sq + 499999) \div 500000

\* the square of a finite float t >= 0, in units of 1/100^2: a lower and an
\* upper bound
SqLow(t) == SqFloor(t.v, E8(t) \div 100)

SqHigh(t) == IF Whole(t) THEN t.v * t.v ELSE SqFloor(t.v, E8(t) \div 100 + 1) + 1

\* how the float operations round in one call: lt is the outcome of a < of two
\* distances, le of a <= of a distance and a threshold, that the radicands leave
\* open
Roundings == [lt : BOOLEAN, le : BOOLEAN]

\* d1 < d2 for two distances (any comparison with NaN is False).  A radicand
\* with upper bound zero is the float 0.0; radicands that lie apart by more
\* than the rounding of the operations decide; otherwise the rounding decides,
\* lt
DistLt(d1, d2, lt) ==
    IF d1.k # "fin" \/ d2.k = "nan" THEN FALSE
    ELSE IF d2.k = "inf" THEN TRUE
    ELSE IF HiSq(d2) = 0 THEN FALSE
    ELSE IF d2.sq > 0 /\ Above(HiSq(d1)) <= Below(d2.sq) THEN TRUE
    ELSE IF d1.sq > 0 /\ Below(d1.sq) >= Above(HiSq(d2)) THEN FALSE
    ELSE lt

\* d < t in place of d <= t
DistLeq_strict(d, t, le) ==
    /\ d.k = "fin" /\ t.k # "nan"
    /\ \/ t.k = "inf"
       \/ t.v >= 0 /\ SqLow(t) > 0 /\ Above(HiSq(d)) <= Below(SqLow(t))

\* a radicand between lo and hi against the square of a threshold between tlo
\* and thi: the float 0.0 is within every threshold from 0 up, radicands apart
\* by more than the rounding of the operations decide, and otherwise the
\* rounding decides, le
Leq(lo, hi, tlo, thi, le) ==
    IF hi = 0 THEN TRUE
    ELSE IF tlo > 0 /\ Above(hi) <= Below(tlo) THEN TRUE
    ELSE IF lo > 0 /\ Below(lo) >= Above(thi) THEN FALSE
    ELSE le

\* d <= t for a distance d and a float threshold t
DistLeq(d, t, le) ==
    IF d.k = "nan" \/ t.k = "nan" THEN FALSE
    ELSE IF t.k = "inf" THEN TRUE
    ELSE IF d.k = "inf" \/ t.v < 0 THEN FALSE
    ELSE Leq(d.sq, HiSq(d), SqLow(t), SqHigh(t), le)

----------------------------------------------------------------------------
(* Knuckle pairs and distance vectors *)

\* self.knuckle_indices, in insertion order
knuckle_names == <<"wrist", "index_knuckle", "middle_knuckle", "ring_knuckle", "pinky_knuckle">>

\* position of a knuckle name in the lexical order of strings
LexRank(n) ==
    CASE n = "index_knuckle" -> 1
      [] n = "middle_knuckle" -> 2
      [] n = "pinky_knuckle" -> 3
      [] n = "ring_knuckle" -> 4
      [] n = "wrist" -> 5

\* f"{min(name1, name2)}_{max(name1, name2)}"
PairKey(n1, n2) ==
    IF LexRank(n1) <= LexRank(n2) THEN n1 \o "_" \o n2 ELSE n2 \o "_" \o n1

Keys == {PairKey(knuckle_names[i], knuckle_names[j]) :
            i \in 1..Len(knuckle_names), j \in 1..Len(knuckle_names)} \
        {PairKey(knuckle_names[i], knuckle_names[i]) : i \in 1..Len(knuckle_names)}

reference_key == "middle_knuckle_wrist"

\* the distance normalize_distances divides by: that of reference_key, or, for
\* a dict without it, that of list(distances.keys())[0], the key inserted
\* first (keys is the insertion order of the dict)
reference_distance(distances, keys) ==
    IF reference_key \in DOMAIN distances THEN distances[reference_key]
    ELSE distances[keys[1]]

\* normalize_distances of a dict whose keys were inserted in the order keys:
\* every raw distance divided by the reference distance
normalize_distances(distances, keys) ==
    [key \in DOMAIN distances |->
        Div(distances[key], reference_distance(distances, keys))]

\* normalize_distances of a dict of Python floats with a reference distance
\* that is not 0: the division is that of doubles
normalize_floats(distances, keys) ==
    [key \in DOMAIN distances |->
        truediv(distances[key], reference_distance(distances, keys))]

RECURSIVE Bits(_, _, _)
\* the remainder left after 4 * n more binary digits of a quotient with
\* remainder r and divisor den
Bits(r, den, n) == IF n = 0 THEN r ELSE Bits((16 * r) % den, den, n - 1)

\* the remainder left after n more binary digits of f / 5^6
Remainder(f, n) == (2 ^ (n % 4) * Bits(f, 15625, n \div 4)) % 15625

\* on which side of a decimal the double nearest to it lies, by the remainder r
\* its 53 binary digits leave of 5^6: 1 above it, -1 below it, 0 on it
Side(r) == IF r = 0 THEN 0 ELSE IF 2 * r > 15625 THEN 1 ELSE -1

\* where the double nearest to a decimal with eight decimals that end in 50
\* lies.  The decimal is q / 5^6 / 2^7 for q its fiftieth part in
\* hundred-millionths; the 53 binary digits of q / 5^6 are divided out
Lean(q) ==
    Side(IF q >= 15625 THEN Remainder(q % 15625, 52 - Halvings(q \div 15625, 1))
         ELSE Bits(q * 2 ^ Doublings(q, 15625) - 15625, 15625, 13))

\* whether a double that leans lean of the half between two millionths is
\* rounded up: to the even millionth when it lies on the half
TieUp(lean, millionths) == lean = 1 \/ (lean = 0 /\ millionths % 2 = 1)

\* whether the digits after the sixth decimal round v hundredths and e8
\* hundred-millionths up: Python rounds the double itself
RoundsUp(v, e8, more) ==
    \/ e8 % 100 > 50
    \/ /\ e8 % 100 = 50
       /\ (more \/ TieUp(Lean(v * 20000 + e8 \div 50), e8 \div 100))

\* n < 10^6 written with six digits
Digits6(n) ==
    (IF n < 10 THEN "00000" ELSE IF n < 100 THEN "0000" ELSE IF n < 1000 THEN "000"
     ELSE IF n < 10000 THEN "00" ELSE IF n < 100000 THEN "0" ELSE "") \o ToString(n)

\* a whole number of millionths written with six decimals
Fixed6(p) == ToString(p \div 1000000) \o "." \o Digits6(p % 1000000)

\* f"{round(value, 3):.6f}": the value rounded to three decimals, then printed
Fmt3(x) ==
    IF x.k = "fin" THEN Fixed6((x.v * 10 + (E8(x) + 50000) \div 100000) * 1000)
    ELSE x.k

\* f"{value:.6f}": the value rounded to six decimals and written with them; inf
\* and nan print as the words inf and nan
Fmt6(x) ==
    IF x.k = "fin"
    THEN Fixed6(x.v * 10000 + E8(x) \div 100
                + (IF RoundsUp(x.v, E8(x), More(x)) THEN 1 ELSE 0))
    ELSE x.k

\* self.knuckle_indices: the landmark index of each knuckle name
KnuckleIndex(name) ==
    CASE name = "wrist" -> 0
      [] name = "index_knuckle" -> 5
      [] name = "middle_knuckle" -> 9
      [] name = "ring_knuckle" -> 13
      [] name = "pinky_knuckle" -> 17

\* np.sqrt(np.sum((coord1 - coord2) ** 2)) for two pixel coordinates, exact: the
\* radicand is carried
Euclid(coord1, coord2) ==
    np_sqrt(Fin((coord1[1] - coord2[1]) * (coord1[1] - coord2[1])
                + (coord1[2] - coord2[2]) * (coord1[2] - coord2[2])))

\* distances[key] = distance on a dict
SetItem(distances, key, distance) ==
    [k \in DOMAIN distances \cup {key} |-> IF k = key THEN distance ELSE distances[k]]

\* an inner loop that starts at the outer knuckle itself
inner_start_same(i) == i

\* enumerate(knuckle_names[i+1:], i+1): the inner loop starts after the outer knuckle
inner_start(i) == i + 1

RECURSIVE KnuckleLoop(_, _, _, _)
\* the nested loop of calculate_knuckle_distances at the pair (i, j)
KnuckleLoop(keypoints, i, j, distances) ==
    IF i > Len(knuckle_names) THEN distances
    ELSE IF j > Len(knuckle_names)
    THEN KnuckleLoop(keypoints, i + 1, inner_start(i + 1), distances)
    ELSE KnuckleLoop(keypoints, i, j + 1,
                     SetItem(distances,
                             PairKey(knuckle_names[i], knuckle_names[j]),
                             Euclid(keypoints[KnuckleIndex(knuckle_names[i])],
                                    keypoints[KnuckleIndex(knuckle_names[j])])))

\* calculate_knuckle_distances: the distance of every pair of knuckles, under
\* the key of the pair
calculate_knuckle_distances(keypoints) ==
    KnuckleLoop(keypoints, 1, inner_start(1), [k \in {} |-> 0])

\* the (i, j) index pairs of the nested loop of calculate_knuckle_distances
LoopPairs ==
    <<<<1, 2>>, <<1, 3>>, <<1, 4>>, <<1, 5>>, <<2, 3>>, <<2, 4>>, <<2, 5>>,
      <<3, 4>>, <<3, 5>>, <<4, 5>>>>

\* the keys of a distance vector in the order calculate_knuckle_distances
\* inserts them; normalize_distances keeps that order
LoopKeys ==
    [n \in 1..Len(LoopPairs) |->
        PairKey(knuckle_names[LoopPairs[n][1]], knuckle_names[LoopPairs[n][2]])]

\* the key strings in the order in which Python compares strings
StringOrder ==
    <<"index_knuckle_middle_knuckle", "index_knuckle_pinky_knuckle",
      "index_knuckle_ring_knuckle", "index_knuckle_wrist",
      "middle_knuckle_pinky_knuckle", "middle_knuckle_ring_knuckle",
      "middle_knuckle_wrist", "pinky_knuckle_ring_knuckle",
      "pinky_knuckle_wrist", "ring_knuckle_wrist", "thumb_wrist">>

\* distances.items() of a dict whose keys were inserted in the order of the
\* sequence keys: the (key, value) pairs in insertion order
items(distances, keys) ==
    [n \in 1..Len(keys) |-> <<keys[n], distances[keys[n]]>>]

\* the entries left in insertion order
unsorted(its) == its

\* sorted(distances.items()): the keys of a dict are distinct, so the pairs are
\* ordered by the string order of their keys alone
sorted(its) ==
    LET has(key) == \E n \in 1..Len(its) : its[n][1] = key
        present == SelectSeq(StringOrder, has)
    IN  [i \in 1..Len(present) |->
            its[CHOOSE n \in 1..Len(its) : its[n][1] = present[i]]]

RECURSIVE join(_, _)
\* sep.join(strs)
join(sep, strs) ==
    IF Len(strs) = 0 THEN ""
    ELSE IF Len(strs) = 1 THEN strs[1]
    ELSE strs[1] \o sep \o join(sep, Tail(strs))

\* "|".join([f"{key}:{value:.6f}" for key, value in sorted_distances])
distance_string(sorted_distances) ==
    join("|", [i \in 1..Len(sorted_distances) |->
                sorted_distances[i][1] \o ":" \o Fmt6(sorted_distances[i][2])])

\* hashlib.sha256(text.encode()).hexdigest()[:16] of the texts of the vectors
\* below, and of the texts of the vectors of two entries with the entries the
\* other way round: the digests hashlib computes
Sha256 ==
    (   "middle_knuckle_wrist:1.000000|index_knuckle_wrist:0.750000"
     :> "32f8f77d2cc734d3")
    @@
    (   "middle_knuckle_wrist:1.000000|index_knuckle_wrist:0.333333"
     :> "ed69e33256b9cdaf")
    @@
    (   "thumb_wrist:1.000000|index_knuckle_wrist:0.500000"
     :> "17ebc972404a1fa1")
    @@
    (   "thumb_wrist:2.000000|index_knuckle_wrist:1.000000"
     :> "805610bf79b18d54")
    @@
    (   "middle_knuckle_wrist:1.000000"
     :> "a7242a24467f2828")
    @@
    (   "thumb_wrist:1.000000"
     :> "0b326f9949309fc5")
    @@
    (   "index_knuckle_wrist:0.750000|middle_knuckle_wrist:1.000000"
     :> "10ce9d5c39f2853c")
    @@
    (   "index_knuckle_wrist:0.333333|middle_knuckle_wrist:1.000000"
     :> "1934d99741644505")
    @@
    (   "index_knuckle_wrist:0.500000|thumb_wrist:1.000000"
     :> "0f867d475f2b1710")
    @@
    (   "index_knuckle_wrist:1.000000|thumb_wrist:2.000000"
     :> "e8bbddaab03cbb54")
    @@
    (   "index_knuckle_middle_knuckle:0.640000|index_knuckle_pinky_knuckle:1.690000|"
        \o "index_knuckle_ring_knuckle:1.120000|index_knuckle_wrist:1.560000|"
        \o "middle_knuckle_pinky_knuckle:1.050000|middle_knuckle_ring_knuckle:0.480000|"
        \o "middle_knuckle_wrist:1.000000|pinky_knuckle_ring_knuckle:0.570000|"
        \o "pinky_knuckle_wrist:0.650000|ring_knuckle_wrist:0.680000"
     :> "45c9ecd942cc1006")
    @@
    (   "index_knuckle_middle_knuckle:0.666667|index_knuckle_pinky_knuckle:2.333333|"
        \o "index_knuckle_ring_knuckle:2.000000|index_knuckle_wrist:0.333333|"
        \o "middle_knuckle_pinky_knuckle:1.666667|middle_knuckle_ring_knuckle:1.333333|"
        \o "middle_knuckle_wrist:1.000000|pinky_knuckle_ring_knuckle:0.333333|"
        \o "pinky_knuckle_wrist:2.666667|ring_knuckle_wrist:2.333333"
     :> "a4f5cb46c702af81")
    @@
    (   "index_knuckle_middle_knuckle:0.950000|index_knuckle_pinky_knuckle:1.500000|"
        \o "index_knuckle_ring_knuckle:1.300000|index_knuckle_wrist:1.850000|"
        \o "middle_knuckle_pinky_knuckle:0.550000|middle_knuckle_ring_knuckle:0.350000|"
        \o "middle_knuckle_wrist:1.000000|pinky_knuckle_ring_knuckle:0.200000|"
        \o "pinky_knuckle_wrist:0.650000|ring_knuckle_wrist:0.750000"
     :> "f0b9fa344d65655c")
    @@
    (   "index_knuckle_middle_knuckle:0.950000|index_knuckle_pinky_knuckle:1.500000|"
        \o "index_knuckle_ring_knuckle:1.300000|index_knuckle_wrist:1.850001|"
        \o "middle_knuckle_pinky_knuckle:0.550000|middle_knuckle_ring_knuckle:0.350000|"
        \o "middle_knuckle_wrist:1.000000|pinky_knuckle_ring_knuckle:0.200000|"
        \o "pinky_knuckle_wrist:0.650000|ring_knuckle_wrist:0.750000"
     :> "5ea82c4f9841a934")
    @@
    (   "index_knuckle_middle_knuckle:0.950000|index_knuckle_pinky_knuckle:1.430000|"
        \o "index_knuckle_ring_knuckle:1.300000|index_knuckle_wrist:1.850000|"
        \o "middle_knuckle_pinky_knuckle:0.480000|middle_knuckle_ring_knuckle:0.350000|"
        \o "middle_knuckle_wrist:1.000000|pinky_knuckle_ring_knuckle:0.130000|"
        \o "pinky_knuckle_wrist:0.680000|ring_knuckle_wrist:0.750000"
     :> "0b32aa8b6041ab01")
    @@
    (   "index_knuckle_middle_knuckle:inf|index_knuckle_pinky_knuckle:inf|"
        \o "index_knuckle_ring_knuckle:inf|index_knuckle_wrist:inf|"
        \o "middle_knuckle_pinky_knuckle:inf|middle_knuckle_ring_knuckle:inf|"
        \o "middle_knuckle_wrist:nan|pinky_knuckle_ring_knuckle:inf|"
        \o "pinky_knuckle_wrist:inf|ring_knuckle_wrist:inf"
     :> "b4835389b2ca4d5c")
    @@
    (   "index_knuckle_middle_knuckle:nan|index_knuckle_pinky_knuckle:inf|"
        \o "index_knuckle_ring_knuckle:inf|index_knuckle_wrist:nan|"
        \o "middle_knuckle_pinky_knuckle:inf|middle_knuckle_ring_knuckle:inf|"
        \o "middle_knuckle_wrist:nan|pinky_knuckle_ring_knuckle:inf|"
        \o "pinky_knuckle_wrist:inf|ring_knuckle_wrist:inf"
     :> "beae1f956a3014cd")

\* hashlib.sha256(text.encode()).hexdigest()[:16]: 64 bits of the digest, which
\* two texts may share.  Every text the operations below hash is tabulated; the
\* digest of any other text is not known and is written as sha256 of the text
hexdigest16(text) ==
    IF text \in DOMAIN Sha256 THEN Sha256[text] ELSE "sha256(" \o text \o ")"

\* generate_palm_signature of a dict given by its items in insertion order: the
\* first 16 hex digits of the SHA-256 of the sorted "key:value" entries
generate_palm_signature(its) ==
    hexdigest16(distance_string(sorted(its)))

RECURSIVE SumSq(_, _, _)
SumSq(S, d1, d2) ==
    IF S = {} THEN Fin(0)
    ELSE LET key == CHOOSE x \in S : TRUE
         IN  Add(SqDiff(d1[key], d2[key]), SumSq(S \ {key}, d1, d2))

\* calculate_template_distance: Euclidean distance over the common keys
calculate_template_distance(distances1, distances2) ==
    LET common_keys == DOMAIN distances1 \cap DOMAIN distances2
    IN  IF common_keys = {} THEN DistInf
        ELSE np_sqrt(SumSq(common_keys, distances1, distances2))

----------------------------------------------------------------------------
(* Images and the detector *)

\* image paths handed to the commands; "none.jpg" names no file
Images == {"none.jpg", "blank.jpg", "a.jpg", "a2.jpg", "b.jpg"}

image_exists(image_path) == image_path # "none.jpg"

\* keypoints_xy of a detection: wrist, index, middle, ring and pinky knuckle at
\* the pixels given, the sixteen other landmarks on one pixel
Hand(w, i, m, r, p) ==
    [idx \in 0..20 |->
        CASE idx = 0 -> w [] idx = 5 -> i [] idx = 9 -> m [] idx = 13 -> r
          [] idx = 17 -> p [] OTHER -> <<1, 1>>]

\* the detections of the images are chosen with whole pixel distances, so that
\* the square root is the whole number r with r * r = n
Root(n) == CHOOSE r \in 0..n : r * r = n

\* calculate_knuckle_distances of a detection, in pixels
PixelDistances(keypoints) ==
    LET distances == calculate_knuckle_distances(keypoints)
    IN  [key \in DOMAIN distances |-> Root(distances[key].sq)]

\* the first palm: the wrist below a row of knuckles
RawA == PixelDistances(Hand(<<200, 60>>, <<25, 0>>, <<120, 0>>, <<155, 0>>, <<175, 0>>))

\* the same palm seen again, the pinky knuckle found 7 pixels off: normalized
\* distance sqrt(0.0156), about 0.125, from the first
RawA2 == PixelDistances(Hand(<<200, 60>>, <<25, 0>>, <<120, 0>>, <<155, 0>>, <<168, 0>>))

\* another palm, normalized distance sqrt(0.6574), about 0.81, from the first
RawB == PixelDistances(Hand(<<200, 60>>, <<56, 0>>, <<120, 0>>, <<168, 0>>, <<225, 0>>))

\* a detection that puts wrist, index knuckle and middle knuckle on one pixel,
\* the ring knuckle 40 and the pinky knuckle 50 pixels away on one line
RawDot == PixelDistances(Hand(<<0, 0>>, <<0, 0>>, <<0, 0>>, <<40, 0>>, <<50, 0>>))

\* the landmark indices of self.knuckle_indices
knuckle_indices == {0, 5, 9, 13, 17}

\* min_confidence, 0.5, in hundredths
min_confidence == 50

\* the 21 confidences of a detection: those of wrist, index, middle, ring and
\* pinky knuckle, and one value for the 16 other landmarks
ConfVec(w, i, m, r, p, o) ==
    [idx \in 0..20 |->
        CASE idx = 0 -> w [] idx = 5 -> i [] idx = 9 -> m [] idx = 13 -> r
          [] idx = 17 -> p [] OTHER -> o]

\* a detection with the knuckles on one line, 3 pixels from wrist to middle
\* knuckle: normalized, its distances are thirds, off the hundredths
RawLine == PixelDistances(Hand(<<0, 0>>, <<1, 0>>, <<3, 0>>, <<7, 0>>, <<8, 0>>))

\* images in which the model finds keypoints ("blank.jpg" shows no hand)
KeypointImages ==
    {"a.jpg", "a2.jpg", "b.jpg", "dot.jpg", "line.jpg", "k50.jpg", "o00.jpg",
     "w49.jpg", "i49.jpg", "m49.jpg", "r49.jpg", "p49.jpg"}

HasKeypoints(image_path) == image_path \in KeypointImages

\* result.keypoints.conf[0] for an image with keypoints
Confidences(image_path) ==
    CASE image_path = "k50.jpg" -> ConfVec(50, 50, 50, 50, 50, 0)
      [] image_path = "o00.jpg" -> ConfVec(100, 90, 80, 70, 60, 0)
      [] image_path = "w49.jpg" -> ConfVec(49, 100, 100, 100, 100, 100)
      [] image_path = "i49.jpg" -> ConfVec(100, 49, 100, 100, 100, 100)
      [] image_path = "m49.jpg" -> ConfVec(100, 100, 49, 100, 100, 100)
      [] image_path = "r49.jpg" -> ConfVec(100, 100, 100, 49, 100, 100)
      [] image_path = "p49.jpg" -> ConfVec(100, 100, 100, 100, 49, 100)
      [] OTHER -> ConfVec(90, 90, 90, 90, 90, 90)

\* min(knuckle_confidences)
MinKnuckle(confidences) ==
    CHOOSE c \in {confidences[idx] : idx \in knuckle_indices} :
        \A idx \in knuckle_indices : c <= confidences[idx]

\* the confidence test that rejects the detection when it is strict
confident_above(confidences) == MinKnuckle(confidences) > min_confidence

\* the confidence test of detect_hand_keypoints: not (min(...) < min_confidence)
confident(confidences) == ~ (MinKnuckle(confidences) < min_confidence)

\* detect_hand_keypoints followed by calculate_knuckle_distances on an image the
\* detector was run on: no result (None), or the ten pairwise pixel distances
Detected(image_path) ==
    HasKeypoints(image_path) /\ confident(Confidences(image_path))

RawDistances(image_path) ==
    CASE image_path = "a.jpg" -> RawA
      [] image_path = "a2.jpg" -> RawA2
      [] image_path = "b.jpg" -> RawB
      [] image_path = "dot.jpg" -> RawDot
      [] image_path = "line.jpg" -> RawLine
      [] image_path = "k50.jpg" -> RawB
      [] OTHER -> RawA

\* normalize_distances(raw_distances) for the detection of each image
NormalizedDistances ==
    [image_path \in KeypointImages |->
        normalize_distances(RawDistances(image_path), LoopKeys)]

\* Python's None
NoneVal == [none |-> TRUE]

\* create_palm_template: None when detection fails, otherwise the template
create_palm_template(image_path, person_name) ==
    IF ~ model_exists \/ ~ image_exists(image_path) \/ ~ Detected(image_path)
    THEN NoneVal
    ELSE LET raw_distances == RawDistances(image_path)
             normalized_distances == NormalizedDistances[image_path]
         IN  [signature |-> generate_palm_signature(items(normalized_distances, LoopKeys)),
              raw_distances |-> raw_distances,
              normalized_distances |-> normalized_distances,
              person_name |-> person_name,
              image_path |-> image_path]

----------------------------------------------------------------------------
(* The file store *)

Absent == [kind |-> "absent", doc |-> <<>>]
\* a file whose text is not JSON: json.load raises json.JSONDecodeError
Corrupt == [kind |-> "corrupt", doc |-> <<>>]
\* a file whose bytes are not UTF-8 text: reading it raises UnicodeDecodeError,
\* which no handler of palm_api.py catches
Undecodable == [kind |-> "undecodable", doc |-> <<>>]
JsonFile(doc) == [kind |-> "json", doc |-> doc]

\* path.exists() for get_palm_data_path(phone_number)
path_exists(st, phone_number) == st[phone_number].kind # "absent"

\* truth value of a loaded JSON value or None
Truthy(x) == x # NoneVal /\ DOMAIN x # {}

\* load_palm_data: the parsed record, or None; a file that is not JSON is removed
\* (a removal that fails is logged and the file stays); only json.JSONDecodeError
\* is caught, so a file that cannot be decoded leaves the call as an exception
load_palm_data(st, phone_number) ==
    IF ~ path_exists(st, phone_number)
    THEN [st |-> st, data |-> NoneVal, raised |-> FALSE]
    ELSE CASE st[phone_number].kind = "json" ->
                [st |-> st, data |-> st[phone_number].doc, raised |-> FALSE]
           [] st[phone_number].kind = "undecodable" ->
                [st |-> st, data |-> [exception |-> "UnicodeDecodeError"],
                 raised |-> TRUE]
           [] OTHER ->
                [st |-> IF writable THEN [st EXCEPT ![phone_number] = Absent] ELSE st,
                 data |-> NoneVal, raised |-> FALSE]

\* a float as json.dump writes it: repr gives the shortest digits that read back
\* as the same float (the hundredths, what lies above them, and whether more
\* follows); infinity and NaN are written as the words Infinity and NaN
float_repr(x) ==
    CASE x.k = "fin" -> <<"digits", x.v, E8(x), IF More(x) THEN x.more ELSE <<>>>>
      [] x.k = "inf" -> <<"Infinity", 0>>
      [] x.k = "nan" -> <<"NaN", 0>>

\* a number token as json.load reads it
parse_float(tok) ==
    CASE tok[1] = "digits" -> Float(tok[2], tok[3], tok[4])
      [] tok[1] = "Infinity" -> Inf
      [] tok[1] = "NaN" -> NaN

\* json.dump of a record (after convert_to_native): every field under its key,
\* strings as they are, the normalized distances as number tokens
json_dump(obj) ==
    [f \in DOMAIN obj |->
        IF f = "normalizedDistances"
        THEN [key \in DOMAIN obj[f] |-> float_repr(obj[f][key])]
        ELSE obj[f]]

\* json.load of a text json_dump wrote
json_load(text) ==
    [f \in DOMAIN text |->
        IF f = "normalizedDistances"
        THEN [key \in DOMAIN text[f] |-> parse_float(text[f][key])]
        ELSE text[f]]

\* save_palm_data: json.dump of the record to <phone_number>.json (the file is
\* kept as the value its text parses to); False when the file cannot be written
save_palm_data(st, phone_number, palm_data) ==
    IF writable
    THEN [st |-> [st EXCEPT ![phone_number] = JsonFile(json_load(json_dump(palm_data)))],
          ok |-> TRUE]
    ELSE [st |-> st, ok |-> FALSE]

----------------------------------------------------------------------------
(* Commands of palm_api.py.  A command yields the store it leaves, the dict *)
(* it returns (out) or the exception it raises.                             *)

Ret(st, out) == [st |-> st, out |-> out, raised |-> FALSE]
Raise(st, exc) == [st |-> st, out |-> [exception |-> exc], raised |-> TRUE]

\* a record made under one fixed identity, whatever identity is registered
new_palm_data_one_identity(phone_number, template, t1, t2) ==
    [phoneNumber |-> "555-1111",
     signature |-> template.signature,
     normalizedDistances |-> template.normalized_distances,
     rawDistances |-> template.raw_distances,
     registeredAt |-> t1,
     lastUsed |-> t2]

\* the record register_palm makes of a template
new_palm_data(phone_number, template, t1, t2) ==
    [phoneNumber |-> phone_number,
     signature |-> template.signature,
     normalizedDistances |-> template.normalized_distances,
     rawDistances |-> template.raw_distances,
     registeredAt |-> t1,
     lastUsed |-> t2]

\* register_palm; t1 and t2 are the two readings of datetime.utcnow()
register_palm(st, image_path, phone_number, t1, t2) ==
    IF ~ image_exists(image_path)
    THEN Ret(st, [success |-> FALSE, message |-> "Image not found"])
    ELSE IF ~ model_exists
    THEN Ret(st, [success |-> FALSE, message |-> "Palm recognition model not available"])
    ELSE
    LET l == load_palm_data(st, phone_number)
        existing_data == l.data
        template == create_palm_template(image_path, "None")
    IN  IF l.raised THEN Raise(l.st, existing_data.exception)
        ELSE IF Truthy(existing_data)
        THEN Ret(l.st, [success |-> FALSE,
                        message |-> "Palm already registered for this phone number"])
        ELSE IF template = NoneVal
        THEN Ret(l.st, [success |-> FALSE,
                        message |-> "Failed to detect hand keypoints in image"])
        ELSE
        LET palm_data == new_palm_data(phone_number, template, t1, t2)
            s == save_palm_data(l.st, phone_number, palm_data)
        IN  IF s.ok
            THEN Ret(s.st, [success |-> TRUE,
                            message |-> "Palm registered successfully",
                            data |-> [phoneNumber |-> phone_number,
                                      signature |-> template.signature,
                                      registeredAt |-> palm_data.registeredAt]])
            ELSE Ret(s.st, [success |-> FALSE, message |-> "Failed to save palm data"])

\* delete_palm that reports the deletion and leaves the file
delete_palm_keeps_file(st, phone_number) ==
    IF path_exists(st, phone_number)
    THEN Ret(st, [success |-> TRUE, message |-> "Palm registration deleted successfully"])
    ELSE Ret(st, [success |-> FALSE, message |-> "No palm registered for this phone number"])

\* delete_palm; os.remove raises OSError (read-only file system) when the
\* removal is refused, and nothing catches it
delete_palm(st, phone_number) ==
    IF path_exists(st, phone_number)
    THEN IF writable
         THEN Ret([st EXCEPT ![phone_number] = Absent],
                  [success |-> TRUE, message |-> "Palm registration deleted successfully"])
         ELSE Raise(st, "OSError")
    ELSE Ret(st, [success |-> FALSE, message |-> "No palm registered for this phone number"])

\* the outcome of a < of the distances to two stored vectors that the radicands
\* leave open: two equal vectors give the same float, which is not below itself
OpenLt(distances1, distances2, lt) == distances1 # distances2 /\ lt

RECURSIVE Compare(_, _, _, _, _, _, _)
\* the comparison loop of recognize_palm over palm_files, from position i: a file
\* that is not JSON is skipped, a file that cannot be decoded raises
\* UnicodeDecodeError, a record without the fields read raises KeyError
Compare(st, template, palm_files, i, best_match, best_distance, fp) ==
    IF i > Len(palm_files)
    THEN [raised |-> FALSE, exc |-> "", best_match |-> best_match,
          best_distance |-> best_distance]
    ELSE IF st[palm_files[i]].kind = "corrupt"
    THEN Compare(st, template, palm_files, i + 1, best_match, best_distance, fp)
    ELSE IF st[palm_files[i]].kind = "undecodable"
    THEN [raised |-> TRUE, exc |-> "UnicodeDecodeError", best_match |-> best_match,
          best_distance |-> best_distance]
    ELSE
    LET stored_data == st[palm_files[i]].doc
    IN  IF "normalizedDistances" \notin DOMAIN stored_data
           \/ "phoneNumber" \notin DOMAIN stored_data
        THEN [raised |-> TRUE, exc |-> "KeyError", best_match |-> best_match,
              best_distance |-> best_distance]
        ELSE
        LET distance == calculate_template_distance(template.normalized_distances,
                                                    stored_data.normalizedDistances)
        IN  IF DistLt(distance, best_distance,
                      OpenLt(stored_data.normalizedDistances,
                             IF best_match = NoneVal THEN NoneVal
                             ELSE best_match.normalizedDistances, fp.lt))
            THEN Compare(st, template, palm_files, i + 1, stored_data, distance, fp)
            ELSE Compare(st, template, palm_files, i + 1, best_match, best_distance, fp)

\* the "data" of a non-match with a confidence added, as a match has it
no_match_data_with_confidence(best_distance, threshold) ==
    [distance |-> best_distance, confidence |-> [one_minus |-> best_distance],
     threshold |-> threshold]

\* the "data" of a non-match: the best distance and the threshold
no_match_data(best_distance, threshold) ==
    [distance |-> best_distance, threshold |-> threshold]

\* the end of recognize_palm with lastUsed set on the nearest record before the
\* threshold is looked at
Conclude_touches_always(st, found, best_distance, threshold, t, fp) ==
    IF ~ Truthy(found)
    THEN Ret(st, [success |-> TRUE, match |-> FALSE,
                  message |-> "Palm not recognized",
                  data |-> no_match_data(best_distance, threshold)])
    ELSE
    LET best_match == [f \in DOMAIN found \cup {"lastUsed"} |->
                            IF f = "lastUsed" THEN t ELSE found[f]]
        s == save_palm_data(st, best_match.phoneNumber, best_match)
    IN  IF DistLeq(best_distance, threshold, fp.le)
        THEN Ret(s.st, [success |-> TRUE, match |-> TRUE,
                        message |-> "Palm recognized successfully",
                        data |-> [phoneNumber |-> best_match.phoneNumber,
                                  distance |-> best_distance,
                                  confidence |-> [one_minus |-> best_distance],
                                  threshold |-> threshold]])
        ELSE Ret(s.st, [success |-> TRUE, match |-> FALSE,
                        message |-> "Palm not recognized",
                        data |-> no_match_data(best_distance, threshold)])

\* the end of recognize_palm: a match within the threshold gets its lastUsed set
\* and saved (the outcome of the save is not looked at), and is reported
Conclude(st, found, best_distance, threshold, t, fp) ==
    IF Truthy(found) /\ DistLeq(best_distance, threshold, fp.le)
    THEN LET best_match == [f \in DOMAIN found \cup {"lastUsed"} |->
                                IF f = "lastUsed" THEN t ELSE found[f]]
             s == save_palm_data(st, best_match.phoneNumber, best_match)
         IN  Ret(s.st, [success |-> TRUE, match |-> TRUE,
                        message |-> "Palm recognized successfully",
                        data |-> [phoneNumber |-> best_match.phoneNumber,
                                  distance |-> best_distance,
                                  confidence |-> [one_minus |-> best_distance],
                                  threshold |-> threshold]])
    ELSE Ret(st, [success |-> TRUE, match |-> FALSE,
                  message |-> "Palm not recognized",
                  data |-> no_match_data(best_distance, threshold)])

\* recognize_palm that compares every file also when an identity is given
recognize_palm_scans_all(st, image_path, phone_number, threshold, glob_order, t, fp) ==
    IF ~ image_exists(image_path)
    THEN Ret(st, [success |-> FALSE, message |-> "Image not found"])
    ELSE IF ~ model_exists
    THEN Ret(st, [success |-> FALSE, message |-> "Palm recognition model not available"])
    ELSE
    LET template == create_palm_template(image_path, "None")
    IN  IF template = NoneVal
        THEN Ret(st, [success |-> FALSE, message |-> "Failed to detect hand keypoints in image"])
        ELSE IF phone_number # "" /\ ~ path_exists(st, phone_number)
        THEN Ret(st, [success |-> FALSE, match |-> FALSE, message |-> "No palm registered for"])
        ELSE IF glob_order = <<>>
        THEN Ret(st, [success |-> FALSE, match |-> FALSE,
                      message |-> "No registered palms in database"])
        ELSE
        LET c == Compare(st, template, glob_order, 1, NoneVal, DistInf, fp)
        IN  IF c.raised THEN Raise(st, c.exc)
            ELSE Conclude(st, c.best_match, c.best_distance, threshold, t, fp)

\* recognize_palm; phone_number "" stands for None as well (both are false in
\* "if phone_number"), glob_order is the order PALM_DATA_DIR.glob lists the files
\* in, t is the reading of datetime.utcnow(), fp how the float operations round
recognize_palm(st, image_path, phone_number, threshold, glob_order, t, fp) ==
    IF ~ image_exists(image_path)
    THEN Ret(st, [success |-> FALSE, message |-> "Image not found"])
    ELSE IF ~ model_exists
    THEN Ret(st, [success |-> FALSE, message |-> "Palm recognition model not available"])
    ELSE
    LET template == create_palm_template(image_path, "None")
        palm_files == IF phone_number # "" THEN <<phone_number>> ELSE glob_order
    IN  IF template = NoneVal
        THEN Ret(st, [success |-> FALSE, message |-> "Failed to detect hand keypoints in image"])
        ELSE IF phone_number # "" /\ ~ path_exists(st, phone_number)
        THEN Ret(st, [success |-> FALSE, match |-> FALSE, message |-> "No palm registered for"])
        ELSE IF palm_files = <<>>
        THEN Ret(st, [success |-> FALSE, match |-> FALSE,
                      message |-> "No registered palms in database"])
        ELSE
        LET c == Compare(st, template, palm_files, 1, NoneVal, DistInf, fp)
        IN  IF c.raised THEN Raise(st, c.exc)
            ELSE Conclude(st, c.best_match, c.best_distance, threshold, t, fp)

RECURSIVE ListLoop(_, _, _, _)
\* the loop of list_registered_palms: a file that is not JSON is skipped, a file
\* that cannot be decoded raises UnicodeDecodeError, a record without
\* phoneNumber or registeredAt raises KeyError
ListLoop(st, palm_files, i, palms) ==
    IF i > Len(palm_files) THEN [raised |-> FALSE, exc |-> "", palms |-> palms]
    ELSE IF st[palm_files[i]].kind = "corrupt"
    THEN ListLoop(st, palm_files, i + 1, palms)
    ELSE IF st[palm_files[i]].kind = "undecodable"
    THEN [raised |-> TRUE, exc |-> "UnicodeDecodeError", palms |-> palms]
    ELSE
    LET data == st[palm_files[i]].doc
    IN  IF "phoneNumber" \notin DOMAIN data \/ "registeredAt" \notin DOMAIN data
        THEN [raised |-> TRUE, exc |-> "KeyError", palms |-> palms]
        ELSE ListLoop(st, palm_files, i + 1,
                      Append(palms,
                             [phoneNumber |-> data.phoneNumber,
                              registeredAt |-> data.registeredAt,
                              lastUsed |-> IF "lastUsed" \in DOMAIN data
                                           THEN data.lastUsed ELSE data.registeredAt]))

\* list_registered_palms
list_registered_palms(st, glob_order) ==
    LET l == ListLoop(st, glob_order, 1, <<>>)
    IN  IF l.raised THEN Raise(st, l.exc)
        ELSE Ret(st, [success |-> TRUE, count |-> Len(l.palms), palms |-> l.palms])

----------------------------------------------------------------------------
(* The command line *)

\* the default of recognize_palm's threshold, 0.13
DefaultThreshold == 13

\* threshold arguments tried on the command line
ThresholdArgs == {"0", "0.13", "inf", "abc"}

\* float(s) raises ValueError
float_raises(s) == s = "abc"

\* float(s)
float(s) ==
    CASE s = "0" -> Fin(0)
      [] s = "0.13" -> Fin(13)
      [] s = "inf" -> Inf

Usage == [success |-> FALSE, message |-> "Usage"]

\* print(json.dumps(obj)): one more object on the standard output, which is
\* the sequence of the objects written so far
write_stdout(stdout, obj) == Append(stdout, obj)

\* a main whose handler ends the process without writing the error object
Output_silent_handler(r) ==
    IF r.raised
    THEN [st |-> r.st, stdout |-> <<>>,
          exit |-> 1, result |-> r.out, raised |-> TRUE]
    ELSE [st |-> r.st, stdout |-> write_stdout(<<>>, r.out), exit |-> 0,
          result |-> r.out, raised |-> FALSE]

\* the end of main for the outcome r of the command: the result is printed and
\* the process ends with status 0, or the command raised before the print of
\* the try body was reached, and the handler of main prints the error and
\* exits with status 1
Output(r) ==
    IF r.raised
    THEN [st |-> r.st,
          stdout |-> write_stdout(<<>>, [success |-> FALSE, message |-> "Error"]),
          exit |-> 1, result |-> r.out, raised |-> TRUE]
    ELSE [st |-> r.st, stdout |-> write_stdout(<<>>, r.out), exit |-> 0,
          result |-> r.out, raised |-> FALSE]

\* main; argv is sys.argv, argv[1] the script (sys.argv[k] is argv[k + 1])
main(st, argv, glob_order, t1, t2, fp) ==
    IF Len(argv) < 2
    THEN [st |-> st,
          stdout |-> write_stdout(<<>>, [success |-> FALSE,
                                         message |-> "Missing command"]),
          exit |-> 1, result |-> NoneVal, raised |-> FALSE]
    ELSE Output(
        CASE argv[2] = "register" ->
                IF Len(argv) < 4 THEN Ret(st, Usage)
                ELSE register_palm(st, argv[3], argv[4], t1, t2)
          [] argv[2] = "recognize" ->
                IF Len(argv) < 3 THEN Ret(st, Usage)
                ELSE IF Len(argv) > 4 /\ float_raises(argv[5])
                THEN Raise(st, "ValueError")
                ELSE recognize_palm(st, argv[3],
                                    IF Len(argv) > 3 THEN argv[4] ELSE "",
                                    IF Len(argv) > 4 THEN float(argv[5])
                                    ELSE Fin(DefaultThreshold),
                                    glob_order, t1, fp)
          [] argv[2] = "delete" ->
                IF Len(argv) < 3 THEN Ret(st, Usage)
                ELSE delete_palm(st, argv[3])
          [] argv[2] = "list" -> list_registered_palms(st, glob_order)
          [] OTHER -> Ret(st, [success |-> FALSE, message |-> "Unknown command"]))

----------------------------------------------------------------------------
(* PalmRecognitionSystem: the in-memory palm_database, a dict keyed by      *)
(* signature, kept here as the sequence of its templates in insertion order *)

Signatures(db) == {db[i].signature : i \in 1..Len(db)}

\* palm_database.pkl holding the pickled dict db
Pickled(db) == [kind |-> "pickle", doc |-> db]

\* load_database: the dict of the file; an empty dict when there is no file and
\* when the file cannot be unpickled (the exception is caught)
load_database(file) == IF file.kind = "pickle" THEN file.doc ELSE <<>>

\* how the write of save_database ends: the dict is written, open() is refused
\* and the file stays as it was, or the dump fails after open() emptied the file
SaveOutcomes == {"saved", "refused", "cut"}

\* save_database: the file it leaves; a failure is logged and not reported
save_database(file, db, outcome) ==
    CASE outcome = "saved" -> Pickled(db)
      [] outcome = "refused" -> file
      [] outcome = "cut" -> Corrupt

\* PalmRecognitionSystem.register_palm: the database and the file it leaves,
\* and what it returns
sys_register_palm(db, file, image_path, person_name, outcome) ==
    LET template == create_palm_template(image_path, person_name)
    IN  IF template = NoneVal THEN [db |-> db, file |-> file, out |-> FALSE]
        ELSE IF template.signature \in Signatures(db)
        THEN [db |-> db, file |-> file, out |-> FALSE]
        ELSE [db |-> Append(db, template),
              file |-> save_database(file, Append(db, template), outcome),
              out |-> TRUE]

RECURSIVE SysCompare(_, _, _, _, _, _)
\* the comparison loop of PalmRecognitionSystem.recognize_palm
SysCompare(db, template, i, best_match, best_distance, fp) ==
    IF i > Len(db) THEN [best_match |-> best_match, best_distance |-> best_distance]
    ELSE LET distance == calculate_template_distance(template.normalized_distances,
                                                     db[i].normalized_distances)
         IN  IF DistLt(distance, best_distance,
                       OpenLt(db[i].normalized_distances,
                              IF best_match = NoneVal THEN NoneVal
                              ELSE best_match.normalized_distances, fp.lt))
             THEN SysCompare(db, template, i + 1, db[i], distance, fp)
             ELSE SysCompare(db, template, i + 1, best_match, best_distance, fp)

\* a recognize_palm of the class that compares with the records of the
\* per-identity files as well, read as templates
sys_recognize_palm_with_files(db, image_path, threshold, fp) ==
    LET template == create_palm_template(image_path, "None")
        holds(id) == store[id].kind = "json" /\ "normalizedDistances" \in DOMAIN store[id].doc
        ids == SelectSeq(<<"555-1111", "555-2222">>, holds)
        files == [i \in 1..Len(ids) |->
                    [person_name |-> ids[i], signature |-> store[ids[i]].doc.signature,
                     normalized_distances |-> store[ids[i]].doc.normalizedDistances]]
    IN  IF template = NoneVal THEN NoneVal
        ELSE LET c == SysCompare(db \o files, template, 1, NoneVal, DistInf, fp)
             IN  IF Truthy(c.best_match) /\ DistLeq(c.best_distance, threshold, fp.le)
                 THEN [match |-> TRUE,
                       person_name |-> c.best_match.person_name,
                       distance |-> c.best_distance,
                       threshold |-> threshold,
                       signature |-> c.best_match.signature]
                 ELSE [match |-> FALSE,
                       distance |-> c.best_distance,
                       threshold |-> threshold]

\* PalmRecognitionSystem.recognize_palm that asks only for best_distance <= threshold
sys_recognize_palm_unguarded(db, image_path, threshold, fp) ==
    LET template == create_palm_template(image_path, "None")
    IN  IF template = NoneVal THEN NoneVal
        ELSE LET c == SysCompare(db, template, 1, NoneVal, DistInf, fp)
             IN  IF DistLeq(c.best_distance, threshold, fp.le)
                 THEN [match |-> TRUE,
                       person_name |-> IF c.best_match = NoneVal THEN "None"
                                       ELSE c.best_match.person_name,
                       distance |-> c.best_distance,
                       threshold |-> threshold,
                       signature |-> IF c.best_match = NoneVal THEN <<>>
                                     ELSE c.best_match.signature]
                 ELSE [match |-> FALSE,
                       distance |-> c.best_distance,
                       threshold |-> threshold]

\* PalmRecognitionSystem.recognize_palm: None, or the match information
sys_recognize_palm(db, image_path, threshold, fp) ==
    LET template == create_palm_template(image_path, "None")
    IN  IF template = NoneVal THEN NoneVal
        ELSE LET c == SysCompare(db, template, 1, NoneVal, DistInf, fp)
             IN  IF Truthy(c.best_match) /\ DistLeq(c.best_distance, threshold, fp.le)
                 THEN [match |-> TRUE,
                       person_name |-> c.best_match.person_name,
                       distance |-> c.best_distance,
                       threshold |-> threshold,
                       signature |-> c.best_match.signature]
                 ELSE [match |-> FALSE,
                       distance |-> c.best_distance,
                       threshold |-> threshold]

\* thresholds handed to PalmRecognitionSystem.recognize_palm (0.1 is its default)
SysThresholds == {Fin(0), Fin(10), Fin(13), Inf}

----------------------------------------------------------------------------
(* Actions *)

Script == "palm_api.py"

\* the orders in which a directory listing can give the files present
GlobOrders(st) ==
    LET present == {id \in Ids : path_exists(st, id)}
    IN  {o \in [1..Cardinality(present) -> present] :
            \A i, j \in 1..Cardinality(present) : i # j => o[i] # o[j]}

\* the clock may advance between two readings within one call
Later == {t \in {now, now + 1} : t <= MaxClock}

\* between two calls: the last call has returned and its result was taken
Idle == [call |-> "idle"]

Init ==
    /\ store = [id \in Ids |-> Absent]
    /\ palm_database = <<>>
    /\ other_database = <<>>
    /\ database_file = Absent
    /\ now = 0
    /\ model_exists \in BOOLEAN
    /\ writable = TRUE
    /\ res = Idle

\* the rounding of a call that leaves no comparison to it
NoRounding == [lt |-> FALSE, le |-> FALSE]

\* one run of the command line
Invoke(argv, glob_order, t2, fp) ==
    /\ res = Idle
    /\ res' = [call |-> "main", argv |-> argv, pre |-> store, t |-> now,
               glob_order |-> glob_order] @@ main(store, argv, glob_order, now, t2, fp)
    /\ store' = res'.st
    /\ now' = t2
    /\ UNCHANGED <<palm_database, other_database, database_file, model_exists, writable>>

CliRegister(images, ids) ==
    \E image_path \in images, phone_number \in ids, t2 \in Later :
        Invoke(<<Script, "register", image_path, phone_number>>, <<>>, t2, NoRounding)

CliRecognize(images, ids) ==
    \E image_path \in images, glob_order \in GlobOrders(store), fp \in Roundings :
        \/ Invoke(<<Script, "recognize", image_path>>, glob_order, now, fp)
        \/ \E phone_number \in ids \cup {""} :
            \/ Invoke(<<Script, "recognize", image_path, phone_number>>, glob_order, now, fp)
            \/ \E threshold \in ThresholdArgs :
                Invoke(<<Script, "recognize", image_path, phone_number, threshold>>,
                       glob_order, now, fp)

CliDelete(ids) ==
    \E phone_number \in ids : Invoke(<<Script, "delete", phone_number>>, <<>>, now, NoRounding)

CliList ==
    \E glob_order \in GlobOrders(store) : Invoke(<<Script, "list">>, glob_order, now, NoRounding)

\* command lines that name no command, an unknown one, or too few arguments
BadArgvs ==
    {<<Script>>, <<Script, "frobnicate">>, <<Script, "register">>,
     <<Script, "register", "a.jpg">>, <<Script, "recognize">>, <<Script, "delete">>}

CliUsage ==
    \E argv \in BadArgvs : Invoke(argv, <<>>, now, NoRounding)

\* a direct call of load_palm_data
Load ==
    \E phone_number \in Ids :
        LET l == load_palm_data(store, phone_number)
        IN  /\ res = Idle
            /\ store' = l.st
            /\ res' = [call |-> "load_palm_data", phone_number |-> phone_number,
                       pre |-> store, data |-> l.data, raised |-> l.raised]
            /\ UNCHANGED <<palm_database, other_database, database_file,
                           now, model_exists, writable>>

Tick ==
    /\ res = Idle
    /\ now < MaxClock
    /\ now' = now + 1
    /\ UNCHANGED <<store, palm_database, other_database, database_file,
                   model_exists, writable, res>>

\* records no call of this version wrote: a file cut short (not JSON), a file
\* that is not UTF-8 text, an empty object, a record without its measurements,
\* one without lastUsed as well, a record of an older key scheme
LegacyDoc(id) ==
    [phoneNumber |-> id, signature |-> "00000000deadbeef",
     normalizedDistances |-> [key \in {"thumb_wrist"} |-> Fin(100)],
     rawDistances |-> [key \in {"thumb_wrist"} |-> 80],
     registeredAt |-> 0, lastUsed |-> 0]

BareDoc(id) == [phoneNumber |-> id, registeredAt |-> 0, lastUsed |-> 0]

UnusedDoc(id) == [phoneNumber |-> id, registeredAt |-> 0]

ForeignFiles(id) ==
    {Corrupt, Undecodable, JsonFile(<<>>), JsonFile(BareDoc(id)),
     JsonFile(UnusedDoc(id)), JsonFile(LegacyDoc(id))}

\* the directory is changed from outside the program
EnvWrite(ids) ==
    \E id \in ids : \E f \in ForeignFiles(id) :
        /\ res = Idle
        /\ store[id] # f
        /\ store' = [store EXCEPT ![id] = f]
        /\ UNCHANGED <<palm_database, other_database, database_file,
                       now, model_exists, writable, res>>

\* the file system that holds PALM_DATA_DIR is remounted read-only (every
\* creation, rewrite and removal of a file is refused), or read-write again
Chmod ==
    /\ res = Idle
    /\ writable' = ~ writable
    /\ UNCHANGED <<store, palm_database, other_database, database_file, now, model_exists, res>>

SysRegister(images, names, outcomes) ==
    \E image_path \in images, person_name \in names, outcome \in outcomes :
        LET r == sys_register_palm(palm_database, database_file, image_path,
                                   person_name, outcome)
        IN  /\ res = Idle
            /\ palm_database' = r.db
            /\ database_file' = r.file
            /\ res' = [call |-> "sys_register_palm", image_path |-> image_path,
                       person_name |-> person_name, pre |-> palm_database,
                       out |-> r.out]
            /\ UNCHANGED <<store, other_database, now, model_exists, writable>>

\* load_database() on the object in use, or a new PalmRecognitionSystem made in
\* its place (__init__ ends with load_database)
SysLoad ==
    /\ res = Idle
    /\ palm_database' = load_database(database_file)
    /\ res' = [call |-> "load_database", pre |-> palm_database,
               file |-> database_file]
    /\ UNCHANGED <<store, other_database, database_file, now, model_exists, writable>>

\* a direct call of save_database() on the object in use
SysSave(outcomes) ==
    \E outcome \in outcomes :
        /\ res = Idle
        /\ database_file' = save_database(database_file, palm_database, outcome)
        /\ res' = [call |-> "save_database", pre |-> palm_database,
                   file |-> database_file]
        /\ UNCHANGED <<store, palm_database, other_database, now, model_exists,
                       writable>>

\* the caller turns to its other PalmRecognitionSystem object
SysSwitch ==
    /\ res = Idle
    /\ palm_database # other_database
    /\ palm_database' = other_database
    /\ other_database' = palm_database
    /\ UNCHANGED <<store, database_file, now, model_exists, writable, res>>

SysRecognize(images) ==
    \E image_path \in images, threshold \in SysThresholds, fp \in Roundings :
        /\ res = Idle
        /\ res' = [call |-> "sys_recognize_palm", image_path |-> image_path,
                   threshold |-> threshold, pre |-> palm_database,
                   out |-> sys_recognize_palm(palm_database, image_path, threshold, fp)]
        /\ UNCHANGED <<store, palm_database, other_database, database_file,
                       now, model_exists, writable>>

\* the caller takes the result of the call that returned
Return ==
    /\ res # Idle
    /\ res' = Idle
    /\ UNCHANGED <<store, palm_database, other_database, database_file,
                   now, model_exists, writable>>

\* the program alone, on a store it alone writes
Next ==
    \/ Return
    \/ CliRegister(Images, Ids)
    \/ CliRecognize(Images, Ids)
    \/ CliDelete(Ids)
    \/ CliList
    \/ CliUsage
    \/ Load
    \/ Tick

Spec == Init /\ [][Next]_vars

\* the program on a directory that other hands write to as well
NextEnv == Next \/ EnvWrite(Ids)

SpecEnv == Init /\ [][NextEnv]_vars

\* the program on a file system that may refuse writes
NextFault == Next \/ Chmod

SpecFault == Init /\ [][NextFault]_vars

\* the records handed to save_palm_data: those register_palm makes, one of them
\* of a detection with coinciding knuckles, one with distances off the
\* hundredths, and one of an older key scheme
StoreImages == {"a.jpg", "b.jpg", "dot.jpg", "line.jpg"}

\* a direct call of save_palm_data
Save ==
    \E phone_number \in Ids, t2 \in 0..MaxClock :
        \E palm_data \in {new_palm_data(phone_number,
                                        [signature |-> generate_palm_signature(
                                            items(normalize_distances(RawDistances(i),
                                                                      LoopKeys),
                                                  LoopKeys)),
                                         normalized_distances |->
                                            normalize_distances(RawDistances(i), LoopKeys),
                                         raw_distances |-> RawDistances(i)],
                                        0, t2) : i \in StoreImages}
                          \cup {LegacyDoc(phone_number)} :
            /\ res = Idle
            /\ res' = [call |-> "save_palm_data", phone_number |-> phone_number,
                       palm_data |-> palm_data, pre |-> store]
                      @@ save_palm_data(store, phone_number, palm_data)
            /\ store' = res'.st
            /\ UNCHANGED <<palm_database, other_database, database_file,
                           now, model_exists, writable>>

\* save_palm_data and load_palm_data called directly
NextStore ==
    \/ Return
    \/ Save
    \/ Load
    \/ Chmod
    \/ EnvWrite(Ids)

SpecStore == Init /\ [][NextStore]_vars

\* images whose detections differ in the confidences of the landmarks
ProbeImages == {"blank.jpg", "a.jpg", "k50.jpg", "o00.jpg",
                "w49.jpg", "i49.jpg", "m49.jpg", "r49.jpg", "p49.jpg"}

\* both ways of building a template, on detections of every confidence
NextDetect ==
    \/ Return
    \/ CliRegister(ProbeImages, {"555-1111"})
    \/ CliRecognize(ProbeImages, {"555-1111"})
    \/ CliDelete({"555-1111"})
    \/ SysRegister(ProbeImages, {"alice"}, {"saved"})
    \/ SysRecognize(ProbeImages)

SpecDetect == Init /\ [][NextDetect]_vars

\* raw distance vectors handed to normalize_distances: three detections (one
\* with coinciding knuckles), a vector whose reference distance alone is 0,
\* vectors of fewer keys, one of them off the hundredths when normalized, and
\* vectors of another key scheme
RawVectors ==
    {RawA, RawA2, RawB, RawDot, RawLine,
     [RawA EXCEPT ![reference_key] = 0],
     [key \in {reference_key} |-> 7],
     [key \in {reference_key, "index_knuckle_wrist"} |->
        IF key = reference_key THEN 40 ELSE 30],
     [key \in {reference_key, "index_knuckle_wrist"} |->
        IF key = reference_key THEN 3 ELSE 1],
     [key \in {"thumb_wrist"} |-> 80],
     [key \in {"thumb_wrist", "index_knuckle_wrist"} |->
        IF key = "thumb_wrist" THEN 80 ELSE 40]}

\* the reference distance is 0: the division of normalize_distances is by zero
ZeroReference(distances, keys) == reference_distance(distances, keys) = 0

Reverse(seq) == [n \in 1..Len(seq) |-> seq[Len(seq) + 1 - n]]

Rotate(seq, r) == [n \in 1..Len(seq) |-> seq[((n - 1 + r) % Len(seq)) + 1]]

\* the keys of seq that are keys of distances, in the order of seq
KeysIn(seq, distances) ==
    LET isKey(key) == key \in DOMAIN distances
    IN  SelectSeq(seq, isKey)

\* orders in which the keys of a vector may have been inserted: the loop order
\* and its rotations, both reversed as well, and the string order
InsertionOrders(distances) ==
    {KeysIn(Rotate(LoopKeys \o <<"thumb_wrist">>, r), distances) : r \in 0..Len(LoopKeys)}
    \cup {KeysIn(Reverse(Rotate(LoopKeys \o <<"thumb_wrist">>, r)), distances) :
            r \in 0..Len(LoopKeys)}
    \cup {KeysIn(StringOrder, distances)}

\* a direct call of normalize_distances on a dict with the entries of
\* distances, inserted in the order keys; on numpy scalars (as
\* calculate_knuckle_distances makes them) or on Python floats, for which a
\* division by zero raises ZeroDivisionError
Normalize ==
    \E distances \in RawVectors, numpy \in BOOLEAN :
        \E keys \in InsertionOrders(distances) :
            /\ res = Idle
            /\ res' = [call |-> "normalize_distances", distances |-> distances,
                       keys |-> keys, numpy |-> numpy,
                       raised |-> ~ numpy /\ ZeroReference(distances, keys),
                       out |-> IF numpy THEN normalize_distances(distances, keys)
                               ELSE IF ZeroReference(distances, keys)
                               THEN [exception |-> "ZeroDivisionError"]
                               ELSE normalize_floats(distances, keys)]
            /\ UNCHANGED <<store, palm_database, other_database, database_file,
                           now, model_exists, writable>>

\* the vectors normalize_distances makes of the raw vectors
Vectors ==
    UNION {{normalize_distances(distances, keys) : keys \in InsertionOrders(distances)} :
            distances \in RawVectors}

\* the first palm's vector with one entry moved by 0.0000003, by 0.0000007, and
\* by 0.0000005 to where the seventh decimal is a 5
Nearby ==
    {[normalize_distances(RawA, LoopKeys) EXCEPT
        !["index_knuckle_wrist"] = Fine(@.v, e8)] : e8 \in {30, 50, 70}}

\* two vectors that differ in one entry, 0.1 as a binary32 and the binary32
\* next above it (0.100000001490116 and 0.100000008940697)
Neighbours ==
    {[key \in {reference_key, "index_knuckle_wrist"} |->
        IF key = reference_key THEN Fin(100) ELSE Binary32(m, 27)] :
     m \in {13421773, 13421774}}

\* the vectors handed to generate_palm_signature
SignVectors == Vectors \cup Nearby

\* a direct call of generate_palm_signature on a dict with the entries of
\* distances, inserted in the order keys
Sign ==
    \E distances \in SignVectors :
        \E keys \in InsertionOrders(distances) :
            /\ res = Idle
            /\ res' = [call |-> "generate_palm_signature", distances |-> distances,
                       keys |-> keys,
                       out |-> generate_palm_signature(items(distances, keys))]
            /\ UNCHANGED <<store, palm_database, other_database, database_file,
                           now, model_exists, writable>>

\* a direct call of calculate_template_distance
Distance ==
    \E distances1 \in Vectors \cup Neighbours, distances2 \in Vectors \cup Neighbours :
        /\ res = Idle
        /\ res' = [call |-> "calculate_template_distance",
                   distances1 |-> distances1, distances2 |-> distances2,
                   out |-> calculate_template_distance(distances1, distances2)]
        /\ UNCHANGED <<store, palm_database, other_database, database_file,
                       now, model_exists, writable>>

\* pixel positions a landmark is detected at
Pixels == {<<0, 0>>, <<3, 0>>, <<0, 4>>, <<40, 0>>}

\* landmark sets: the five knuckles anywhere on Pixels (several may coincide),
\* the sixteen other landmarks on one pixel
LandmarkSets ==
    {[idx \in 0..20 |-> IF idx \in knuckle_indices THEN knuckles[idx] ELSE <<1, 1>>] :
        knuckles \in [knuckle_indices -> Pixels]}

\* a direct call of calculate_knuckle_distances
Measure ==
    \E keypoints \in LandmarkSets :
        /\ res = Idle
        /\ res' = [call |-> "calculate_knuckle_distances", keypoints |-> keypoints,
                   out |-> calculate_knuckle_distances(keypoints)]
        /\ UNCHANGED <<store, palm_database, other_database, database_file,
                       now, model_exists, writable>>

\* the functions on distance vectors called directly
NextVec ==
    \/ Return
    \/ Normalize
    \/ Sign
    \/ Distance
    \/ Measure

SpecVec == Init /\ [][NextVec]_vars

\* the recognition objects used directly: two objects of one working directory
NextSys ==
    \/ Return
    \/ SysRegister({"a.jpg", "b.jpg"}, {"alice"}, SaveOutcomes)
    \/ SysRecognize({"blank.jpg", "a.jpg", "a2.jpg"})
    \/ SysLoad
    \/ SysSave(SaveOutcomes)
    \/ SysSwitch

SpecSys == Init /\ [][NextSys]_vars

\* images shown to the recognition object in enrolment trials: no hand, one
\* palm twice, another palm, and a detection with coinciding knuckles
TrialImages == {"blank.jpg", "a.jpg", "a2.jpg", "b.jpg", "dot.jpg"}

\* the recognition object used as test_palm_recognition uses it: recognize,
\* register, recognize again
NextTrial ==
    \/ Return
    \/ SysRegister(TrialImages, Names, {"saved", "refused"})
    \/ SysRecognize(TrialImages)
    \/ SysLoad
    \/ SysSave({"saved"})

SpecTrial == Init /\ [][NextTrial]_vars

\* both ways of recognising side by side, on fewer inputs
NextBoth ==
    \/ Return
    \/ CliRegister({"a.jpg", "b.jpg"}, Ids)
    \/ CliRecognize({"blank.jpg", "a.jpg", "a2.jpg"}, Ids)
    \/ CliDelete(Ids)
    \/ EnvWrite({"555-2222"})
    \/ SysRegister({"a.jpg", "b.jpg"}, {"alice"}, {"saved"})
    \/ SysRecognize(Images)
    \/ SysLoad
    \/ SysSave({"saved"})

SpecBoth == Init /\ [][NextBoth]_vars

----------------------------------------------------------------------------
(* Two processes of palm_api.py at once on one identity.  Each runs one     *)
(* command; a step is one access to the file: the exists() test (or glob),  *)
(* open(path, 'r') with json.load, os.remove, open(path, 'w') (which        *)
(* empties the file), and the write of json.dump when the file is closed.   *)

RaceId == "555-1111"

\* the directory with the file of RaceId as f and no other file
Snapshot(f) == [id \in Ids |-> IF id = RaceId THEN f ELSE Absent]

\* a process about to take the first step of its command
Started(op, image_path, target) ==
    [op |-> op, image_path |-> image_path, target |-> target, pc |-> "exists",
     fd |-> "none", seen |-> "none", data |-> NoneVal, out |-> NoneVal]

\* the commands the two processes run
Starts ==
    {Started("register", image_path, RaceId) : image_path \in {"a.jpg", "b.jpg"}}
    \cup {Started("recognize", "a.jpg", target) : target \in {RaceId, ""}}
    \cup {Started(op, "", RaceId) : op \in {"load", "delete", "list"}}

\* what a command hands back: its result, or the exception that left it
Outcome(r) == [result |-> r.out, raised |-> r.raised]

Finish(proc, outcome) == [proc EXCEPT !.pc = "done", !.fd = "none", !.out = outcome]

\* the file a process holds open for writing is removed by another process:
\* what it writes from now on reaches no file of the directory
Unlinked(proc) == IF proc.fd = "live" THEN [proc EXCEPT !.fd = "unlinked"] ELSE proc

\* after path.exists() (list, open-set recognize: after glob), which saw a file or none
AfterExists(proc, exists, t) ==
    IF exists
    THEN [proc EXCEPT !.pc = IF proc.op = "delete" THEN "remove" ELSE "read"]
    ELSE CASE proc.op = "register" -> [proc EXCEPT !.pc = "open"]
           [] proc.op = "load" -> Finish(proc, [result |-> NoneVal, raised |-> FALSE])
           [] proc.op = "recognize" ->
                Finish(proc, Outcome(recognize_palm(Snapshot(Absent), proc.image_path,
                                                    proc.target, Fin(DefaultThreshold),
                                                    <<>>, t, NoRounding)))
           [] proc.op = "delete" -> Finish(proc, Outcome(delete_palm(Snapshot(Absent), RaceId)))
           [] proc.op = "list" ->
                Finish(proc, Outcome(list_registered_palms(Snapshot(Absent), <<>>)))

\* a recognize that read the file f: it is done unless it found a match, whose
\* record, lastUsed set, is still to be saved
AfterCompare(proc, r) ==
    IF ~ r.raised /\ "match" \in DOMAIN r.out /\ r.out.match
    THEN [proc EXCEPT !.pc = "open", !.data = r.st[RaceId].doc, !.out = Outcome(r)]
    ELSE Finish(proc, Outcome(r))

\* after open(path, 'r') and json.load, which found the file f: load_palm_data
\* catches json.JSONDecodeError alone, a file that is not UTF-8 text leaves it
\* as UnicodeDecodeError and stays
AfterRead(proc, f, t) ==
    IF f.kind = "absent"
    THEN Finish([proc EXCEPT !.seen = "absent"],
                [result |-> [exception |-> "FileNotFoundError"], raised |-> TRUE])
    ELSE IF f.kind = "undecodable" /\ proc.op \in {"load", "register"}
    THEN Finish([proc EXCEPT !.seen = "undecodable"],
                [result |-> [exception |-> "UnicodeDecodeError"], raised |-> TRUE])
    ELSE
    CASE proc.op = "load" ->
            IF f.kind = "json"
            THEN Finish([proc EXCEPT !.seen = "json"], [result |-> f.doc, raised |-> FALSE])
            ELSE [proc EXCEPT !.seen = "corrupt", !.pc = "remove"]
      [] proc.op = "register" ->
            IF f.kind # "json" THEN [proc EXCEPT !.seen = "corrupt", !.pc = "remove"]
            ELSE IF Truthy(f.doc)
            THEN Finish([proc EXCEPT !.seen = "json"],
                        Outcome(register_palm(Snapshot(f), proc.image_path, RaceId, t, t)))
            ELSE [proc EXCEPT !.seen = "json", !.pc = "open"]
      [] proc.op = "recognize" ->
            AfterCompare([proc EXCEPT !.seen = f.kind],
                         recognize_palm(Snapshot(f), proc.image_path, proc.target,
                                        Fin(DefaultThreshold), <<RaceId>>, t, NoRounding))
      [] proc.op = "list" ->
            Finish([proc EXCEPT !.seen = f.kind],
                   Outcome(list_registered_palms(Snapshot(f), <<RaceId>>)))

\* after os.remove(path), which found the file f: delete_palm does not catch
\* its failure, load_palm_data does
AfterRemove(proc, f) ==
    CASE proc.op = "delete" ->
            IF f.kind = "absent"
            THEN Finish(proc, [result |-> [exception |-> "FileNotFoundError"],
                               raised |-> TRUE])
            ELSE Finish(proc, Outcome(delete_palm(Snapshot(f), RaceId)))
      [] proc.op = "load" -> Finish(proc, [result |-> NoneVal, raised |-> FALSE])
      [] proc.op = "register" -> [proc EXCEPT !.pc = "open"]

\* after open(path, 'w') in save_palm_data: register_palm has made its record,
\* recognize_palm has its match
AfterOpen(proc, t) ==
    IF proc.op = "register"
    THEN [proc EXCEPT !.pc = "write", !.fd = "live",
            !.data = register_palm(Snapshot(Absent), proc.image_path, RaceId, t, t).st[RaceId].doc,
            !.out = Outcome(register_palm(Snapshot(Absent), proc.image_path, RaceId, t, t))]
    ELSE [proc EXCEPT !.pc = "write", !.fd = "live"]

\* what the file can hold after a process wrote its record from the start of a
\* file holding f: written over a text another process put there since the
\* file was emptied, the end of a longer text stays behind it
Overwritten(f, data) ==
    IF f.kind = "json" /\ f.doc # data THEN {JsonFile(data), Corrupt}
    ELSE {JsonFile(data)}

\* two commands start at the same time
Fork ==
    \E p1 \in Starts, p2 \in Starts :
        /\ res = Idle /\ model_exists
        /\ res' = [call |-> "race", pre |-> store, t |-> now, proc |-> <<p1, p2>>]
        /\ UNCHANGED <<store, palm_database, other_database, database_file,
                       now, model_exists, writable>>

At(p, pc) == res.call = "race" /\ res.proc[p].pc = pc

\* path.exists() or glob
Exists(p) ==
    /\ At(p, "exists")
    /\ res' = [res EXCEPT !.proc[p] = AfterExists(@, path_exists(store, RaceId), res.t)]
    /\ UNCHANGED <<store, palm_database, other_database, database_file,
                   now, model_exists, writable>>

\* open(path, 'r') and json.load
Read(p) ==
    /\ At(p, "read")
    /\ res' = [res EXCEPT !.proc[p] = AfterRead(@, store[RaceId], res.t)]
    /\ UNCHANGED <<store, palm_database, other_database, database_file,
                   now, model_exists, writable>>

\* os.remove(path)
Remove(p) ==
    /\ At(p, "remove")
    /\ store' = [store EXCEPT ![RaceId] = Absent]
    /\ res' = [res EXCEPT !.proc[p] = AfterRemove(@, store[RaceId]),
                          !.proc[3 - p] = IF store[RaceId].kind = "absent" THEN @
                                          ELSE Unlinked(@)]
    /\ UNCHANGED <<palm_database, other_database, database_file, now, model_exists, writable>>

\* open(path, 'w'): the file is there and empty
Open(p) ==
    /\ At(p, "open")
    /\ store' = [store EXCEPT ![RaceId] = Corrupt]
    /\ res' = [res EXCEPT !.proc[p] = AfterOpen(@, res.t)]
    /\ UNCHANGED <<palm_database, other_database, database_file, now, model_exists, writable>>

\* the text of json.dump reaches the file when it is closed
Write(p) ==
    /\ At(p, "write")
    /\ IF res.proc[p].fd = "unlinked" THEN store' = store
       ELSE \E f \in Overwritten(store[RaceId], res.proc[p].data) :
                store' = [store EXCEPT ![RaceId] = f]
    /\ res' = [res EXCEPT !.proc[p] = Finish(@, @.out)]
    /\ UNCHANGED <<palm_database, other_database, database_file, now, model_exists, writable>>

\* both commands have ended, or the one command run alone has
Join ==
    /\ res # Idle
    /\ res.call = "race" => (res.proc[1].pc = "done" /\ res.proc[2].pc = "done")
    /\ res' = Idle
    /\ UNCHANGED <<store, palm_database, other_database, database_file,
                   now, model_exists, writable>>

\* commands of two processes interleaved, after commands run one at a time
NextRace ==
    \/ Join
    \/ CliRegister({"a.jpg", "b.jpg"}, {RaceId})
    \/ CliDelete({RaceId})
    \/ Tick
    \/ Fork
    \/ \E p \in {1, 2} : Exists(p)
    \/ \E p \in {1, 2} : Read(p)
    \/ \E p \in {1, 2} : Remove(p)
    \/ \E p \in {1, 2} : Open(p)
    \/ \E p \in {1, 2} : Write(p)

SpecRace == Init /\ [][NextRace]_vars

----------------------------------------------------------------------------
(* Reading the last call *)

IsMain == res.call = "main"
Command == IF IsMain /\ Len(res.argv) >= 2 THEN res.argv[2] ELSE ""
RanRegister == Command = "register" /\ Len(res.argv) >= 4
RanRecognize ==
    /\ Command = "recognize" /\ Len(res.argv) >= 3
    /\ ~ (Len(res.argv) > 4 /\ res.argv[5] = "abc")
RanDelete == Command = "delete" /\ Len(res.argv) >= 3
RanList == Command = "list"
ArgImage == res.argv[3]
RegId == res.argv[4]
DelId == res.argv[3]
Target == IF Len(res.argv) > 3 THEN res.argv[4] ELSE ""
ThresholdUsed ==
    IF Len(res.argv) <= 4 THEN Fin(13)
    ELSE CASE res.argv[5] = "0" -> Fin(0)
           [] res.argv[5] = "0.13" -> Fin(13)
           [] res.argv[5] = "inf" -> Inf

\* a template is built from the image
TemplateBuilt(image_path) ==
    model_exists /\ image_exists(image_path) /\ Detected(image_path)

\* the normalized distances of the template built from the image
Query(image_path) == NormalizedDistances[image_path]

RecordFields ==
    {"phoneNumber", "signature", "normalizedDistances", "rawDistances",
     "registeredAt", "lastUsed"}

\* the file holds a registration of id as register_palm writes it
IsRegistration(f, id) ==
    /\ f.kind = "json"
    /\ DOMAIN f.doc = RecordFields
    /\ f.doc.phoneNumber = id
    /\ DOMAIN f.doc.normalizedDistances = Keys

\* d <= t, stated apart from the code as not (t < d): the float 0.0 is never
\* above a threshold from 0 up; a distance whose radicand lies above the square
\* of the threshold by more than the float operations can round is above it, one
\* that lies below it by more is not; in between le, the rounding, tells
Within(d, t, le) ==
    CASE d.k = "nan" \/ t.k = "nan" -> FALSE
      [] t.k = "inf" -> TRUE
      [] d.k = "inf" -> FALSE
      [] OTHER ->
            /\ t.v >= 0
            /\ \/ HiSq(d) = 0
               \/ SqLow(t) > 0 /\ Above(HiSq(d)) <= Below(SqLow(t))
               \/ /\ ~ (d.sq > 0 /\ Below(d.sq) >= Above(SqHigh(t)))
                  /\ le

AlreadyRegistered ==
    [success |-> FALSE, message |-> "Palm already registered for this phone number"]

NotRegistered ==
    [success |-> FALSE, match |-> FALSE, message |-> "No palm registered for"]

----------------------------------------------------------------------------
(* C1 *)

\* C1: register_palm for an identity whose file exists and parses (image present,
\* model loaded) returns success=false and leaves the store as it was, whatever
\* the parsed content.
C1_DuplicateRejected ==
    (RanRegister /\ image_exists(ArgImage) /\ model_exists
        /\ res.pre[RegId].kind = "json")
    => (~ res.raised /\ ~ res.result.success /\ store = res.pre)

----------------------------------------------------------------------------
(* C2 *)

\* every file is absent or a registration of its identity
TwoStates(st) == \A id \in Ids : st[id] = Absent \/ IsRegistration(st[id], id)

\* C2: per identity the store is Unregistered (no file) or Registered (a record).
\* A register succeeds only from Unregistered and then leaves Registered; from
\* Unregistered with a detectable palm it does succeed, also right after a delete.
\* A delete from Registered succeeds and leaves Unregistered; from Unregistered it
\* fails and changes nothing.  No other call and no call for another identity
\* changes the state of an identity.
C2_StateMachine ==
    /\ TwoStates(store)
    /\ RanRegister =>
        /\ ~ res.raised
        /\ res.result.success
            => (res.pre[RegId] = Absent /\ IsRegistration(store[RegId], RegId))
        /\ (res.pre[RegId] = Absent /\ TemplateBuilt(ArgImage)) => res.result.success
        /\ ~ res.result.success => store = res.pre
        /\ \A o \in Ids \ {RegId} : store[o] = res.pre[o]
    /\ RanDelete =>
        /\ ~ res.raised
        /\ res.pre[DelId] # Absent => (res.result.success /\ store[DelId] = Absent)
        /\ res.pre[DelId] = Absent => (~ res.result.success /\ store = res.pre)
        /\ \A o \in Ids \ {DelId} : store[o] = res.pre[o]
        /\ (res.result.success /\ model_exists) =>
            \A image_path \in {"a.jpg", "a2.jpg", "b.jpg"} :
                register_palm(store, image_path, DelId, now, now).out.success
    /\ ((IsMain /\ ~ RanRegister /\ ~ RanDelete) \/ res.call = "load_palm_data") =>
        \A id \in Ids : (store[id] = Absent) <=> (res.pre[id] = Absent)

\* a delete of a registered identity has succeeded, and a register of the same
\* identity would now succeed
C2_Witness ==
    /\ RanDelete /\ IsRegistration(res.pre[DelId], DelId)
    /\ res.result.success /\ store[DelId] = Absent
    /\ register_palm(store, "a.jpg", DelId, now, now).out.success

----------------------------------------------------------------------------
(* C3 *)

\* the identities a listing of st can name, in any order of the directory
Listed(st) ==
    UNION {LET l == list_registered_palms(st, o)
           IN  IF l.raised THEN {}
               ELSE {l.out.palms[i].phoneNumber : i \in 1..Len(l.out.palms)} :
           o \in GlobOrders(st)}

\* the file does not hold JSON: its text does not parse, or its bytes are not
\* text at all
Unparsable(f) == f.kind \in {"corrupt", "undecodable"}

\* C3: load_palm_data on a file that does not hold JSON removes the file and
\* returns None, no error reaching the caller; a listing made next does not name
\* the identity, and a register made next is not rejected as a duplicate.
C3_CorruptLoad ==
    (res.call = "load_palm_data" /\ Unparsable(res.pre[res.phone_number])) =>
        /\ ~ res.raised
        /\ res.data = NoneVal
        /\ store[res.phone_number] = Absent
        /\ \A o \in Ids \ {res.phone_number} : store[o] = res.pre[o]
        /\ res.phone_number \notin Listed(store)
        /\ \A image_path \in Images :
            register_palm(store, image_path, res.phone_number, now, now).out
                # AlreadyRegistered

----------------------------------------------------------------------------
(* C4 *)

\* the store with every file but that of id taken away
Only(st, id) == [o \in Ids |-> IF o = id THEN st[o] ELSE Absent]

\* the file holds a record recognize_palm can compare: it parses and has the
\* identity and the measurements
Comparable(f) ==
    /\ f.kind = "json"
    /\ {"phoneNumber", "normalizedDistances"} \subseteq DOMAIN f.doc

\* the distance of the query to the record in the file of X
TargetDistance ==
    calculate_template_distance(Query(ArgImage), res.pre[Target].doc.normalizedDistances)

----------------------------------------------------------------------------
(* C5 *)

\* the identities whose records a recognition compares
ApiCandidates ==
    {id \in (IF Target # "" THEN {Target} ELSE Ids) : res.pre[id].kind = "json"}

ApiDistance(id) ==
    calculate_template_distance(Query(ArgImage), res.pre[id].doc.normalizedDistances)

SysDistance(i) ==
    calculate_template_distance(Query(res.image_path), res.pre[i].normalized_distances)

\* a recognition of either kind came to a decision over at least one candidate
ApiDecided ==
    RanRecognize /\ ~ res.raised /\ "data" \in DOMAIN res.result /\ ApiCandidates # {}
SysDecided ==
    res.call = "sys_recognize_palm" /\ res.out # NoneVal /\ res.pre # <<>>

\* C5 as claimed: match is reported exactly when the least distance over the
\* candidates compared is <= the threshold.
C5_MatchIffWithin ==
    /\ ApiDecided =>
        \E le \in BOOLEAN :
            res.result.match <=>
                \E id \in ApiCandidates : Within(ApiDistance(id), ThresholdUsed, le)
    /\ SysDecided =>
        \E le \in BOOLEAN :
            res.out.match <=>
                \E i \in 1..Len(res.pre) : Within(SysDistance(i), res.threshold, le)

\* C5 amended: match is reported exactly when some candidate has a finite
\* distance that is <= the threshold (the bound included).
C5_MatchIffFiniteWithin ==
    /\ ApiDecided =>
        \E le \in BOOLEAN :
            res.result.match <=>
                \E id \in ApiCandidates :
                    /\ ApiDistance(id).k = "fin"
                    /\ Within(ApiDistance(id), ThresholdUsed, le)
    /\ SysDecided =>
        \E le \in BOOLEAN :
            res.out.match <=>
                \E i \in 1..Len(res.pre) :
                    /\ SysDistance(i).k = "fin"
                    /\ Within(SysDistance(i), res.threshold, le)

\* a match at a distance equal to the threshold, 0
C5_Witness ==
    /\ ApiDecided /\ res.result.match
    /\ ThresholdUsed = Fin(0)
    /\ res.result.data.distance = [k |-> "fin", sq |-> 0]

----------------------------------------------------------------------------
(* C6 *)

\* C6: a recognition against an empty store never reports a match and leaves the
\* store empty, for the files and for palm_database; when the template is built
\* the answer says match=false.
C6_EmptyStore ==
    /\ (RanRecognize /\ \A id \in Ids : res.pre[id] = Absent) =>
        /\ ~ res.raised
        /\ store = res.pre
        /\ "match" \in DOMAIN res.result => ~ res.result.match
        /\ TemplateBuilt(ArgImage) =>
            ("match" \in DOMAIN res.result /\ ~ res.result.match)
    /\ (res.call = "sys_recognize_palm" /\ res.pre = <<>>) =>
        /\ palm_database = <<>>
        /\ res.out # NoneVal => ~ res.out.match
        /\ TemplateBuilt(res.image_path) => (res.out # NoneVal /\ ~ res.out.match)

\* the empty palm_database was asked with an infinite threshold and said no match
C6_Witness ==
    /\ res.call = "sys_recognize_palm" /\ res.pre = <<>>
    /\ res.threshold = Inf
    /\ res.out # NoneVal /\ ~ res.out.match

----------------------------------------------------------------------------
(* C7 *)

RecMatched == RanRecognize /\ ~ res.raised /\ "match" \in DOMAIN res.result
                /\ res.result.match

\* the file after differs from the file before in the lastUsed field at most
OnlyLastUsedChanged(before, after) ==
    /\ before.kind = "json" /\ after.kind = "json"
    /\ DOMAIN after.doc = DOMAIN before.doc \cup {"lastUsed"}
    /\ \A f \in DOMAIN before.doc \ {"lastUsed"} : after.doc[f] = before.doc[f]

HasLastUsed(f) == f.kind = "json" /\ "lastUsed" \in DOMAIN f.doc

\* C7: a recognition that reports a match changes the lastUsed field of the
\* matched identity's record and nothing else; any other recognition leaves the
\* store as it was; and the lastUsed of a record that stays changes by no other
\* call than a recognition that matched its identity.
C7_OnlyLastUsed ==
    /\ RanRecognize =>
        IF RecMatched
        THEN /\ OnlyLastUsedChanged(res.pre[res.result.data.phoneNumber],
                                    store[res.result.data.phoneNumber])
             /\ \A o \in Ids \ {res.result.data.phoneNumber} : store[o] = res.pre[o]
        ELSE store = res.pre
    /\ (IsMain \/ res.call = "load_palm_data") =>
        \A id \in Ids :
            (HasLastUsed(res.pre[id]) /\ HasLastUsed(store[id])
                /\ store[id].doc.registeredAt = res.pre[id].doc.registeredAt
                /\ store[id].doc.lastUsed # res.pre[id].doc.lastUsed)
            => (RecMatched /\ res.result.data.phoneNumber = id)

\* an open-set recognition matched one of two registered identities and moved
\* its lastUsed
C7_Witness ==
    /\ RecMatched /\ Target = ""
    /\ \A id \in Ids : IsRegistration(res.pre[id], id)
    /\ store[res.result.data.phoneNumber].doc.lastUsed
        # res.pre[res.result.data.phoneNumber].doc.lastUsed

----------------------------------------------------------------------------
(* C8 *)

\* C8: whenever a recognition reports a match for X, the record of X in the store
\* carries the time of that recognition as lastUsed.
C8_LastUsedSaved ==
    RecMatched =>
        /\ store[res.result.data.phoneNumber].kind = "json"
        /\ store[res.result.data.phoneNumber].doc.lastUsed = res.t

----------------------------------------------------------------------------
(* C9 *)

\* a file list_registered_palms can take an entry from
ValidRecord(f) ==
    f.kind = "json" /\ {"phoneNumber", "registeredAt"} \subseteq DOMAIN f.doc

\* the entry of a valid record; data.get('lastUsed', data['registeredAt'])
Entry(f) ==
    [phoneNumber |-> f.doc.phoneNumber, registeredAt |-> f.doc.registeredAt,
     lastUsed |-> IF "lastUsed" \in DOMAIN f.doc THEN f.doc.lastUsed
                  ELSE f.doc.registeredAt]

\* C9: a listing succeeds with one entry for each valid record and no other
\* entry, count the number of entries, and the store as it was.
C9_ListExact ==
    RanList =>
        /\ ~ res.raised
        /\ res.result.success
        /\ res.result.count = Len(res.result.palms)
        /\ Len(res.result.palms) = Cardinality({id \in Ids : ValidRecord(res.pre[id])})
        /\ {res.result.palms[i] : i \in 1..Len(res.result.palms)}
            = {Entry(res.pre[id]) : id \in {o \in Ids : ValidRecord(res.pre[o])}}
        /\ store = res.pre

----------------------------------------------------------------------------
(* C10 *)

UsageError ==
    \/ Len(res.argv) < 2
    \/ Command \notin {"register", "recognize", "delete", "list"}
    \/ Command = "register" /\ Len(res.argv) < 4
    \/ Command = "recognize" /\ Len(res.argv) < 3
    \/ Command = "delete" /\ Len(res.argv) < 3

\* C10: main exits with status 1 on a usage error and on a failure inside a
\* command, and with status 0 otherwise.
C10_ExitStatus ==
    IsMain => (res.exit = IF UsageError \/ res.raised THEN 1 ELSE 0)

----------------------------------------------------------------------------
(* C11 *)

\* the detector found no hand in an image that exists, with the model loaded
DetectionFailed ==
    /\ RanRegister \/ RanRecognize
    /\ image_exists(ArgImage) /\ model_exists /\ ~ Detected(ArgImage)

\* the call came to write or remove a file while the file system refused it:
\* register_palm removes a file that is not JSON and saves unless the file
\* holds a non-empty object, delete_palm removes whatever file is there,
\* recognize_palm saves the record it matched
StorageFailed ==
    /\ ~ writable
    /\ \/ /\ RanRegister /\ image_exists(ArgImage) /\ model_exists
          /\ \/ res.pre[RegId] = Corrupt
             \/ /\ TemplateBuilt(ArgImage)
                /\ \/ res.pre[RegId] = Absent
                   \/ res.pre[RegId] = JsonFile(<<>>)
       \/ RanDelete /\ res.pre[DelId] # Absent
       \/ /\ RanRecognize /\ TemplateBuilt(ArgImage) /\ ~ res.raised
          /\ \E id \in ApiCandidates :
                /\ Comparable(res.pre[id])
                /\ ApiDistance(id).k = "fin"
                /\ \A le \in BOOLEAN : Within(ApiDistance(id), ThresholdUsed, le)

\* C11: no command raises; a detection failure and a storage failure both come
\* back as a result with success=false.
C11_FailuresReturned ==
    (RanRegister \/ RanRecognize \/ RanDelete \/ RanList) =>
        /\ ~ res.raised
        /\ DetectionFailed => ~ res.result.success
        /\ StorageFailed => ~ res.result.success

----------------------------------------------------------------------------
(* C12 *)

\* x == y of two Python floats: NaN is equal to nothing, itself included
float_eq(x, y) == x.k # "nan" /\ y.k # "nan" /\ x = y

\* loaded == saved for the values of one field of a record: dicts of floats are
\* equal when they have the same keys and equal floats under them
field_eq(loaded, saved, f) ==
    IF f = "normalizedDistances"
    THEN /\ DOMAIN loaded[f] = DOMAIN saved[f]
         /\ \A key \in DOMAIN saved[f] : float_eq(loaded[f][key], saved[f][key])
    ELSE loaded[f] = saved[f]

\* C12: after save_palm_data(identity, r) returned True, load_palm_data(identity)
\* returns a record with the fields of r that is, lastUsed left aside, equal to
\* r in every field, whatever the file held before.
C12_RoundTrip ==
    (res.call = "save_palm_data" /\ res.ok) =>
        LET data == load_palm_data(store, res.phone_number).data
        IN  /\ data # NoneVal
            /\ DOMAIN data = DOMAIN res.palm_data
            /\ \A f \in DOMAIN data \ {"lastUsed"} : field_eq(data, res.palm_data, f)

----------------------------------------------------------------------------
(* C13 *)

\* each of the five knuckle landmarks of the image's detection has confidence
\* 0.5 or more
AllKnucklesConfident(image_path) ==
    /\ Confidences(image_path)[0] >= 50
    /\ Confidences(image_path)[5] >= 50
    /\ Confidences(image_path)[9] >= 50
    /\ Confidences(image_path)[13] >= 50
    /\ Confidences(image_path)[17] >= 50

NoTemplate == [success |-> FALSE, message |-> "Failed to detect hand keypoints in image"]

\* C13: with the model loaded and keypoints found, a template is built exactly
\* when all five knuckle confidences are 0.5 or more, whatever the other sixteen
\* are; without a template register and recognize fail and leave the store as it
\* was, and the recognition object registers nothing and answers None.
C13_ConfidenceGate ==
    /\ ((RanRegister \/ RanRecognize) /\ model_exists /\ HasKeypoints(ArgImage)) =>
        /\ ~ res.raised
        /\ AllKnucklesConfident(ArgImage) =>
            /\ res.result # NoTemplate
            /\ (RanRegister /\ res.pre[RegId] = Absent) => res.result.success
        /\ ~ AllKnucklesConfident(ArgImage) =>
            /\ ~ res.result.success
            /\ store = res.pre
            /\ (RanRecognize \/ res.pre[RegId] = Absent) => res.result = NoTemplate
    /\ (res.call = "sys_register_palm" /\ model_exists /\ HasKeypoints(res.image_path)) =>
        /\ ~ AllKnucklesConfident(res.image_path) =>
            (~ res.out /\ palm_database = res.pre)
        /\ (AllKnucklesConfident(res.image_path) /\ res.pre = <<>>) => res.out
    /\ (res.call = "sys_recognize_palm" /\ model_exists /\ HasKeypoints(res.image_path)) =>
        (res.out # NoneVal <=> AllKnucklesConfident(res.image_path))

\* a register succeeded on a detection whose five knuckles have confidence
\* exactly 0.5 and whose other landmarks have confidence 0
C13_Witness ==
    /\ RanRegister /\ ArgImage = "k50.jpg"
    /\ res.result.success
    /\ \A idx \in 0..20 :
        Confidences(ArgImage)[idx] = IF idx \in {0, 5, 9, 13, 17} THEN 50 ELSE 0

----------------------------------------------------------------------------
(* C14 *)

\* C14: for a raw vector that has the key middle_knuckle_wrist, whatever the
\* value under it, normalize_distances returns a vector of the same keys whose
\* entry under middle_knuckle_wrist is 1.0.
C14_ReferenceIsOne ==
    (res.call = "normalize_distances" /\ reference_key \in DOMAIN res.distances) =>
        /\ ~ res.raised
        /\ DOMAIN res.out = DOMAIN res.distances
        /\ res.out[reference_key] = Fin(100)

----------------------------------------------------------------------------
(* C15 *)

\* C15: the signature depends on the (key, value) entries of the vector only:
\* a dict with the same entries inserted in any other order gets the same
\* signature, and deriving the signature again gives the same value.
C15_SignatureOrderFree ==
    res.call = "generate_palm_signature" =>
        \A keys \in InsertionOrders(res.distances) :
            generate_palm_signature(items(res.distances, keys)) = res.out

\* a signature was derived from a full vector whose keys were not inserted in
\* sorted order
C15_Witness ==
    /\ res.call = "generate_palm_signature"
    /\ DOMAIN res.distances = Keys
    /\ res.keys = LoopKeys
    /\ res.keys # KeysIn(StringOrder, res.distances)
    /\ Len(res.out) = 16

----------------------------------------------------------------------------
(* C16, C17 *)

\* C16: the distance of a distance vector (the ten pair keys) from itself is 0.
C16_SelfDistanceZero ==
    (/\ res.call = "calculate_template_distance"
     /\ res.distances1 = res.distances2
     /\ DOMAIN res.distances1 = Keys) =>
        res.out = np_sqrt(Fin(0))

\* the sum of the squared differences of two finite vectors over the keys S
RECURSIVE SquaredDistance(_, _, _)
SquaredDistance(S, d1, d2) ==
    IF S = {} THEN 0
    ELSE LET key == CHOOSE x \in S : TRUE
         IN  (d1[key].v - d2[key].v) * (d1[key].v - d2[key].v)
             + SquaredDistance(S \ {key}, d1, d2)

\* C17: the distance of two vectors that share no key is +inf; otherwise it is
\* finite, the Euclidean distance over exactly the keys the two vectors share
\* (compared as a number where every entry is a whole number of quarters, which
\* the floats hold exactly).
C17_DistanceOverCommonKeys ==
    res.call = "calculate_template_distance" =>
        IF DOMAIN res.distances1 \cap DOMAIN res.distances2 = {}
        THEN res.out = DistInf
        ELSE /\ res.out.k = "fin"
             /\ (\A key \in DOMAIN res.distances1 \cap DOMAIN res.distances2 :
                    /\ res.distances1[key].k = "fin" /\ Exact(res.distances1[key])
                    /\ res.distances2[key].k = "fin" /\ Exact(res.distances2[key]))
                 => res.out.sq =
                        SquaredDistance(DOMAIN res.distances1 \cap DOMAIN res.distances2,
                                        res.distances1, res.distances2)

----------------------------------------------------------------------------
(* C18 *)

\* a recognize_palm of the command line came to a decision, over any candidates
ApiAnswered == RanRecognize /\ ~ res.raised /\ "data" \in DOMAIN res.result

\* C18 as claimed: every decision of recognize_palm, match or not, holds the
\* match boolean, the best distance, the threshold used and a confidence of
\* 1 - best distance; the identity is there exactly when match is true.
C18_DecisionFields ==
    ApiAnswered =>
        /\ res.result.match \in BOOLEAN
        /\ {"distance", "threshold", "confidence"} \subseteq DOMAIN res.result.data
        /\ res.result.data.threshold = ThresholdUsed
        /\ res.result.data.confidence = [one_minus |-> res.result.data.distance]
        /\ "phoneNumber" \in DOMAIN res.result.data <=> res.result.match

\* C18 amended: every decision holds the match boolean, the best distance and
\* the threshold used; the identity and the confidence of 1 - best distance are
\* there exactly when match is true.
C18_DecisionFieldsOnMatch ==
    ApiAnswered =>
        /\ res.result.match \in BOOLEAN
        /\ {"distance", "threshold"} \subseteq DOMAIN res.result.data
        /\ res.result.data.threshold = ThresholdUsed
        /\ "confidence" \in DOMAIN res.result.data <=> res.result.match
        /\ res.result.match =>
                res.result.data.confidence = [one_minus |-> res.result.data.distance]
        /\ "phoneNumber" \in DOMAIN res.result.data <=> res.result.match

\* a non-match decided at a finite best distance above the threshold
C18_Witness ==
    /\ ApiAnswered /\ ~ res.result.match
    /\ res.result.data.distance.k = "fin"
    /\ res.result.data.distance.sq > 0
    /\ DOMAIN res.result.data = {"distance", "threshold"}

----------------------------------------------------------------------------
(* C19 *)

\* recognize_palm(image_path), at its default threshold 0.1, reports no match
\* on the database db
NoMatchOn(db, image_path) ==
    /\ create_palm_template(image_path, "None") # NoneVal
    /\ \E fp \in Roundings : ~ sys_recognize_palm(db, image_path, Fin(10), fp).match

\* the template at position i of the database was registered from image_path
\* at a moment when recognize_palm(image_path) reported no match
EnrolledAfterNoMatch(db, i, image_path) ==
    /\ db[i].image_path = image_path
    /\ NoMatchOn(SubSeq(db, 1, i - 1), image_path)

\* C19: a register_palm(image, name) called when recognize_palm(image) reports
\* no match succeeds, and after it every recognize_palm(image, threshold) with
\* threshold >= 0 reports a match with that name at distance 0, whatever else
\* was registered in between.
C19_EnrolThenRecognized ==
    /\ (res.call = "sys_register_palm" /\ NoMatchOn(res.pre, res.image_path)) =>
            res.out = TRUE
    /\ res.call = "sys_recognize_palm" =>
            \A i \in 1..Len(res.pre) :
                EnrolledAfterNoMatch(res.pre, i, res.image_path) =>
                    /\ res.out # NoneVal
                    /\ res.out.match
                    /\ res.out.person_name = res.pre[i].person_name
                    /\ res.out.distance = np_sqrt(Fin(0))

----------------------------------------------------------------------------
(* C20 *)

\* d1 <= d2 for two distances (any comparison with NaN is False), up to the
\* rounding of the float operations: the radicand of d1 does not lie above that
\* of d2 by more than they can round
AtMost(d1, d2) ==
    CASE d1.k = "nan" \/ d2.k = "nan" -> FALSE
      [] d2.k = "inf" -> TRUE
      [] d1.k = "inf" -> FALSE
      [] OTHER -> d1.sq = 0 \/ Below(d1.sq) <= Above(HiSq(d2))

\* the files recognize_palm goes through, in its order
ApiScanned == IF Target # "" THEN <<Target>> ELSE res.glob_order

\* the positions of the files that were compared (a file that is not JSON is
\* skipped)
ApiCompared == {i \in 1..Len(ApiScanned) : res.pre[ApiScanned[i]].kind = "json"}

\* the distance of the query from the record at position i
ApiDistanceAt(i) ==
    calculate_template_distance(Query(ArgImage),
                                res.pre[ApiScanned[i]].doc.normalizedDistances)

\* C20: the search reports the nearest candidate: the best distance is <= the
\* distance of the query from every candidate compared, the identity reported
\* is that of a candidate at the best distance, and of several candidates at
\* the best distance the first in the order of enumeration is reported.
C20_NearestFirst ==
    /\ ApiDecided =>
        /\ \A i \in ApiCompared : AtMost(res.result.data.distance, ApiDistanceAt(i))
        /\ res.result.match =>
            \E i \in ApiCompared :
                /\ ApiDistanceAt(i) = res.result.data.distance
                /\ \A j \in ApiCompared : j < i => ApiDistanceAt(j) # ApiDistanceAt(i)
                /\ res.pre[ApiScanned[i]].doc.phoneNumber = res.result.data.phoneNumber
    /\ SysDecided =>
        /\ \A i \in 1..Len(res.pre) : AtMost(res.out.distance, SysDistance(i))
        /\ res.out.match =>
            \E i \in 1..Len(res.pre) :
                /\ SysDistance(i) = res.out.distance
                /\ \A j \in 1..(i - 1) : SysDistance(j) # SysDistance(i)
                /\ res.pre[i].person_name = res.out.person_name
                /\ res.pre[i].signature = res.out.signature

----------------------------------------------------------------------------
(* C21 *)

\* the identities whose file, before the call, did not hold JSON
CorruptBefore == {id \in Ids : Unparsable(res.pre[id])}

\* a register that came to look for an existing record of an identity whose
\* file was not JSON
RegisterMetCorrupt ==
    /\ RanRegister /\ image_exists(ArgImage) /\ model_exists
    /\ RegId \in CorruptBefore

\* a direct load of an identity whose file was not JSON
LoadMetCorrupt == res.call = "load_palm_data" /\ res.phone_number \in CorruptBefore

\* the identities whose file a recognize or a list went through and found not
\* to be JSON
ScanMetCorrupt ==
    IF RanList /\ ~ res.raised THEN CorruptBefore
    ELSE IF ApiAnswered THEN {id \in CorruptBefore : \E i \in 1..Len(ApiScanned) : ApiScanned[i] = id}
    ELSE {}

\* C21 as claimed: whichever operation meets a record that does not parse
\* (load, register, targeted or open-set recognize, list), the record is gone
\* from the store when the operation returns.
C21_SelfHealing ==
    /\ LoadMetCorrupt => ~ Unparsable(store[res.phone_number])
    /\ RegisterMetCorrupt => ~ Unparsable(store[RegId])
    /\ \A id \in ScanMetCorrupt : ~ Unparsable(store[id])

----------------------------------------------------------------------------
(* C22 *)

\* an open-set recognize that built its template
RanOpenSet == RanRecognize /\ Target = "" /\ TemplateBuilt(ArgImage)

\* C22: a record the scan cannot parse (not JSON, or JSON without the identity
\* or the measurements) never aborts an open-set recognize or a list: the call
\* returns a result made of the valid records alone, so a valid record within
\* the threshold is matched whatever else the store holds and in whatever order
\* the files are enumerated.
C22_ScanNeverAborts ==
    /\ RanList =>
        /\ ~ res.raised
        /\ {res.result.palms[i] : i \in 1..Len(res.result.palms)}
            = {Entry(res.pre[id]) : id \in {o \in Ids : ValidRecord(res.pre[o])}}
    /\ RanOpenSet =>
        /\ ~ res.raised
        /\ (\E id \in Ids :
                /\ Comparable(res.pre[id])
                /\ ApiDistance(id).k = "fin"
                /\ \A le \in BOOLEAN : Within(ApiDistance(id), ThresholdUsed, le))
            => res.result.match

----------------------------------------------------------------------------
(* C23 *)

\* the unordered pairs of distinct knuckle names
KnucklePairs ==
    {pair \in SUBSET {knuckle_names[i] : i \in 1..Len(knuckle_names)} :
        Cardinality(pair) = 2}

\* "<lexically smaller name>_<lexically larger name>" of a pair
CanonicalKey(pair) ==
    LET smaller == CHOOSE n \in pair : \A m \in pair : LexRank(n) <= LexRank(m)
        larger == CHOOSE n \in pair : \A m \in pair : LexRank(m) <= LexRank(n)
    IN  smaller \o "_" \o larger

\* C23: for every landmark set calculate_knuckle_distances yields exactly 10
\* entries, one for each unordered pair of the five knuckle names under the
\* canonical key of the pair, no two pairs under one key, every value
\* non-negative, and middle_knuckle_wrist among the keys.
C23_TenCanonicalEntries ==
    res.call = "calculate_knuckle_distances" =>
        /\ Cardinality(DOMAIN res.out) = 10
        /\ DOMAIN res.out = {CanonicalKey(pair) : pair \in KnucklePairs}
        /\ \A p \in KnucklePairs, q \in KnucklePairs :
                CanonicalKey(p) = CanonicalKey(q) => p = q
        /\ \A pair \in KnucklePairs :
                \E n1 \in pair : \E n2 \in pair \ {n1} :
                    res.out[CanonicalKey(pair)] =
                        Euclid(res.keypoints[KnuckleIndex(n1)],
                               res.keypoints[KnuckleIndex(n2)])
        /\ \A key \in DOMAIN res.out : res.out[key].k = "fin" /\ res.out[key].sq >= 0
        /\ reference_key \in DOMAIN res.out

\* the distances of a landmark set in which wrist, index and middle knuckle
\* coincide: ten entries all the same, three of them 0
C23_Witness ==
    /\ res.call = "calculate_knuckle_distances"
    /\ res.keypoints[0] = res.keypoints[5] /\ res.keypoints[5] = res.keypoints[9]
    /\ res.keypoints[13] = <<40, 0>> /\ res.keypoints[17] = <<0, 4>>
    /\ Cardinality(DOMAIN res.out) = 10
    /\ res.out[reference_key].sq = 0
    /\ res.out["pinky_knuckle_ring_knuckle"].sq = 1616

----------------------------------------------------------------------------
(* C24 *)

\* the signature of the vector, its keys inserted in the order of the last call
SignatureOf(distances) == generate_palm_signature(items(distances, res.keys))

\* C24 as claimed: a vector with the same keys that differs in at least one
\* value has another signature.
C24_AnyChangeShows ==
    res.call = "generate_palm_signature" =>
        \A other \in SignVectors :
            (DOMAIN other = DOMAIN res.distances /\ other # res.distances) =>
                SignatureOf(other) # res.out

\* a finite float in hundred-millionths, rounded down
Val8(x) == x.v * 1000000 + E8(x)

\* the value of the finite float x lies nearer to p millionths than to any other
\* millionth (a value half way between two is near neither)
RoundsTo(x, p) ==
    IF More(x) THEN p * 100 - 50 <= Val8(x) /\ Val8(x) + 1 <= p * 100 + 50
    ELSE p * 100 - 50 < Val8(x) /\ Val8(x) < p * 100 + 50

\* the millionths next to a finite float
NextMillionths(x) == {Val8(x) \div 100, Val8(x) \div 100 + 1}

\* two values that round to the same six decimals, or are the same word
SameRounding(x, y) ==
    IF x.k = "fin" /\ y.k = "fin"
    THEN \E p \in NextMillionths(x) : RoundsTo(x, p) /\ RoundsTo(y, p)
    ELSE x.k = y.k

\* two values that round to different six decimals, or of which one is a word
\* the other is not
OtherRounding(x, y) ==
    IF x.k = "fin" /\ y.k = "fin"
    THEN \E p \in NextMillionths(x), q \in NextMillionths(y) :
            RoundsTo(x, p) /\ RoundsTo(y, q) /\ p # q
    ELSE x.k # y.k

\* the text generate_palm_signature hashes for the vector, its keys inserted in
\* the order of the last call
HashedText(distances) == distance_string(sorted(items(distances, res.keys)))

\* C24 amended: a vector with the same keys whose values all round to the same
\* six decimals has the same signature; a vector of which a value rounds to
\* other six decimals has another text hashed (its signature, 64 bits of the
\* SHA-256 of that text, is another one unless the digests collide).
C24_PrintedChangeShows ==
    res.call = "generate_palm_signature" =>
        \A other \in SignVectors :
            DOMAIN other = DOMAIN res.distances =>
                /\ (\A key \in DOMAIN other :
                        SameRounding(other[key], res.distances[key]))
                    => SignatureOf(other) = res.out
                /\ (\E key \in DOMAIN other :
                        OtherRounding(other[key], res.distances[key]))
                    => HashedText(other) # HashedText(res.distances)

\* a signature of the first palm's vector, while among the vectors compared one
\* is 0.0000003 off in one entry and has the same signature, and one is
\* 0.0000007 off and has another text hashed
C24_Witness ==
    /\ res.call = "generate_palm_signature"
    /\ res.distances = normalize_distances(RawA, LoopKeys)
    /\ \E other \in Nearby :
            /\ other # res.distances
            /\ \A key \in DOMAIN other : SameRounding(other[key], res.distances[key])
            /\ SignatureOf(other) = res.out
    /\ \E other \in Nearby :
            /\ OtherRounding(other["index_knuckle_wrist"],
                             res.distances["index_knuckle_wrist"])
            /\ HashedText(other) # HashedText(res.distances)

----------------------------------------------------------------------------
(* C25 *)

\* both commands of the race have ended
RaceOver == res.call = "race" /\ res.proc[1].pc = "done" /\ res.proc[2].pc = "done"

\* the command of process p reported success
Succeeded(p) ==
    /\ ~ res.proc[p].out.raised
    /\ "success" \in DOMAIN res.proc[p].out.result
    /\ res.proc[p].out.result.success

\* C25: of two register_palm calls run at once on an identity that has no
\* record at most one reports success, and the record in the store at the end is
\* the record of the call that reported success.
C25_OneRegisterWins ==
    (/\ RaceOver
     /\ res.pre[RaceId] = Absent
     /\ res.proc[1].op = "register" /\ res.proc[2].op = "register") =>
        /\ ~ (Succeeded(1) /\ Succeeded(2))
        /\ \A p \in {1, 2} : Succeeded(p) => store[RaceId] = JsonFile(res.proc[p].data)

----------------------------------------------------------------------------
(* C26 *)

\* the command of the process reads the record: load_palm_data, list, recognize
Reader(proc) == proc.op \in {"load", "list", "recognize"}

\* the command of the process saves the record: register, or recognize for lastUsed
Saver(proc) == proc.op \in {"register", "recognize"}

\* C26: a load, list or recognize run at once with a save_palm_data of the same
\* identity reads the old state whole (a record, or no file) or the new record
\* whole, never a part of it: it does not find a file that does not parse where
\* none was before, and a load removes no file over it.
C26_NoPartialRead ==
    (res.call = "race" /\ res.pre[RaceId] # Corrupt) =>
        \A p \in {1, 2} :
            (Reader(res.proc[p]) /\ Saver(res.proc[3 - p])) =>
                /\ res.proc[p].seen # "corrupt"
                /\ res.proc[p].pc # "remove"

----------------------------------------------------------------------------
(* C27 *)

\* C27: recognition leaves the registration state of an identity as it is,
\* however it is interleaved: when a delete reports success while a recognize
\* that has read the record is under way, the identity has no record once both
\* have ended, and a recognize makes no record for an identity that had none.
C27_RecognizeKeepsState ==
    RaceOver =>
        \A p \in {1, 2} :
            res.proc[p].op = "recognize" =>
                /\ (/\ res.proc[3 - p].op = "delete" /\ Succeeded(3 - p)
                    /\ res.proc[p].seen = "json") => store[RaceId] = Absent
                /\ (res.pre[RaceId] = Absent /\ res.proc[3 - p].op # "register") =>
                        store[RaceId] = Absent

----------------------------------------------------------------------------
(* C28 *)

\* a command of palm_api.py leaves palm_database as it is, a call of the class
\* leaves the files as they are
KeepsApart ==
    /\ res'.call = "main" => palm_database' = palm_database
    /\ res'.call \in {"sys_register_palm", "sys_recognize_palm"} => store' = store

\* a match is reported from the mechanism's own records: by the class, a
\* template of palm_database; by palm_api.py, the record of a file
MatchesOwnRecords ==
    /\ (res.call = "sys_recognize_palm" /\ res.out # NoneVal /\ res.out.match) =>
            \E i \in 1..Len(res.pre) :
                /\ res.pre[i].signature = res.out.signature
                /\ res.pre[i].person_name = res.out.person_name
    /\ (RanRecognize /\ ~ res.raised /\ "data" \in DOMAIN res.result
            /\ res.result.match) =>
            \E id \in Ids :
                /\ res.pre[id].kind = "json"
                /\ res.pre[id].doc.phoneNumber = res.result.data.phoneNumber

\* C28: the two persistence mechanisms never meet: the commands of palm_api.py
\* read and write the per-identity files and leave palm_database alone, the
\* class reads and writes palm_database and leaves the files alone, and so a
\* palm registered through one is never reported as a match by the recognize
\* of the other.
C28_NeverSynchronize == [][KeepsApart]_vars /\ []MatchesOwnRecords

\* the class is asked for a palm that only palm_api.py registered, and reports
\* no match
C28_Witness ==
    /\ res.call = "sys_recognize_palm" /\ res.pre = <<>>
    /\ TemplateBuilt(res.image_path)
    /\ \E id \in Ids :
        /\ IsRegistration(store[id], id)
        /\ store[id].doc.normalizedDistances = Query(res.image_path)
    /\ res.out # NoneVal /\ ~ res.out.match

----------------------------------------------------------------------------
(* C29 *)

\* C29: on a store that only register, recognize, delete and list have written,
\* starting empty, the record in the file of an identity carries that identity
\* in phoneNumber; so the lastUsed write of a recognize, saved under the
\* record's phoneNumber, goes to the file the record was read from and to no
\* other.
C29_RecordKeyConsistent ==
    /\ \A id \in Ids : store[id].kind = "json" => store[id].doc.phoneNumber = id
    /\ (ApiAnswered /\ res.result.match) =>
        /\ res.pre[res.result.data.phoneNumber].kind = "json"
        /\ store[res.result.data.phoneNumber] =
                JsonFile([res.pre[res.result.data.phoneNumber].doc
                            EXCEPT !.lastUsed = res.t])
        /\ \A id \in Ids \ {res.result.data.phoneNumber} : store[id] = res.pre[id]

\* an open-set recognize over two registrations matched the second identity
\* and its file alone got the new lastUsed
C29_Witness ==
    /\ ApiAnswered /\ res.result.match /\ Target = ""
    /\ res.result.data.phoneNumber = "555-2222"
    /\ store["555-1111"].kind = "json" /\ store["555-1111"] = res.pre["555-1111"]
    /\ store["555-2222"].doc.lastUsed > res.pre["555-2222"].doc.lastUsed

----------------------------------------------------------------------------
(* C30 *)

\* C30: every run of the command line, whatever the command, the arguments
\* and the store it meets, and whether or not the command raised, has written
\* exactly one object to the standard output when the process ends, and that
\* object carries a boolean success field.
C30_OneObjectWritten ==
    IsMain =>
        /\ Len(res.stdout) = 1
        /\ "success" \in DOMAIN res.stdout[1]
        /\ res.stdout[1].success \in BOOLEAN

\* a command raised inside main, and the handler's object is the one written
C30_Witness ==
    /\ IsMain
    /\ res.raised
    /\ res.exit = 1
    /\ Len(res.stdout) = 1
    /\ res.stdout[1].success = FALSE

====
